---- MODULE Spec2Model ----
(***************************************************************************)
(* A model of rallytools-server: the Battle.net API client                 *)
(* (lib/battlenet.py), the commodity importer (auctionhouse/jobs.py) with  *)
(* its market analysis (lib/market.py), the guild roster and character     *)
(* recipe syncs (guild/jobs.py), the recipe catalog import                 *)
(* (gamedata/jobs.py) and the store they write (auctionhouse, gamedata and *)
(* guild models).                                                          *)
(*                                                                         *)
(* Specifications:                                                         *)
(*   SpecClient       one BattleNetAPI instance serving _make_request calls*)
(*   SpecImport       import_commodities runs, one after the other         *)
(*   SpecOverlap      import_commodities runs of two workers, interleaved  *)
(*   SpecFingerprint  the origin fingerprint as a function of the payload  *)
(*   SpecMarket       calculate_market_price and analyze_market_data applied*)
(*                    to price lists and listings                          *)
(*   SpecRoster       sync_guild_roster runs of one guild, one after the    *)
(*                    other                                                *)
(*   SpecCatalog      one import_recipes_and_reagents run                   *)
(*   SpecRecipes      one sync_character_recipes run                        *)
(*   SpecResync       two sync_character_recipes runs, one after the other  *)
(*   SpecProfessions  import_professions runs, one after the other          *)
(*   SpecReconcile    the behaviours of SpecRoster and of SpecRecipes       *)
(***************************************************************************)
EXTENDS Integers, Sequences, FiniteSets, TLC

VARIABLES
    \* ---- lib/battlenet.py: BattleNetAPI ----
    access_token,   \* self.access_token (None, or the cached bearer token)
    token_expiry,   \* self.token_expiry, in clock ticks
    now,            \* time.time(), in clock ticks
    pc,             \* position of the _make_request call in progress
    attempt,        \* the loop variable of `for attempt in range(MAX_RETRIES)`
    events,         \* the network calls and sleeps of the call in progress
    result,         \* how the call in progress ended
    calls,          \* number of finished _make_request calls
    \* ---- the store (gamedata.Item, auctionhouse.Commodity) ----
    items,          \* ids of the Item rows
    commodities,    \* the Commodity rows, in order of their AutoField id
    \* ---- auctionhouse/jobs.py: import_commodities ----
    run,            \* per worker: the locals of its import_commodities run
    prev,           \* the outcome of the run that ended last
    runs,           \* number of runs started
    \* ---- the origin fingerprint, on its own ----
    fp_payload,     \* a payload as upstream serves it (some key order)
    fp_origin,      \* the origin computed last
    fp_first,       \* the origin computed first
    \* ---- lib/market.py, on its own ----
    mk_prices,      \* the argument of calculate_market_price
    mk_price,       \* what calculate_market_price returned
    mk_data,        \* the argument of analyze_market_data
    mk_analysis,    \* what analyze_market_data returned
    \* ---- the store (guild.Character) ----
    characters,     \* the Character rows
    \* ---- guild/jobs.py: sync_guild_roster ----
    roster,         \* the locals of the sync_guild_roster run
    syncs,          \* number of sync_guild_roster runs started
    \* ---- the store (gamedata.Recipe, Reagent, RecipeReagent) ----
    recipes,        \* ids of the Recipe rows
    reagents,       \* ids of the Reagent rows
    recipe_reagents,\* the RecipeReagent rows, as pairs <<recipe, reagent>>
    \* ---- gamedata/jobs.py: import_recipes_and_reagents ----
    catalog,        \* the locals of the import_recipes_and_reagents run
    \* ---- guild/jobs.py: sync_character_recipes ----
    known_recipes,  \* per character: Character.known_recipes, as recipe ids
    crafts,         \* the locals of the sync_character_recipes run
    \* ---- the store (gamedata.Profession) ----
    professions,    \* the Profession rows
    \* ---- gamedata/jobs.py: import_professions ----
    profession_import,\* the locals of the import_professions run
    \* ---- guild/views.py: RecipeCharacterSearchView ----
    search,         \* the request served last and its response
    \* ---- the store (guild.Guild) ----
    guilds,         \* the Guild rows, by name
    \* ---- guild/jobs.py: sync_characters ----
    profiles,       \* per character: the columns of Character that the sync writes
    charsync        \* the locals of the sync_characters run

clientVars == <<access_token, token_expiry, now, pc, attempt, events, result, calls>>

storeVars == <<items, commodities>>
importVars == <<run, prev, runs>>
fpVars == <<fp_payload, fp_origin, fp_first>>
marketVars == <<mk_prices, mk_price, mk_data, mk_analysis>>
rosterVars == <<characters, roster, syncs>>
catalogStoreVars == <<recipes, reagents, recipe_reagents>>
recipeVars == <<recipes, reagents, recipe_reagents, catalog, known_recipes, crafts>>
professionVars == <<professions, profession_import>>
searchVars == <<search>>
guildVars == <<guilds>>
syncVars == <<profiles, charsync>>
nonClientVars == <<items, commodities, run, prev, runs, fp_payload, fp_origin, fp_first,
                   marketVars, rosterVars, recipeVars, professionVars, searchVars, guildVars, syncVars>>
\* what the actions of one part leave alone in the other parts
nonImportVars == <<clientVars, fpVars, marketVars, rosterVars, recipeVars,
                   professionVars, searchVars, guildVars, syncVars>>
nonFpVars == <<clientVars, storeVars, importVars, marketVars, rosterVars, recipeVars,
               professionVars, searchVars, guildVars, syncVars>>
nonMarketVars == <<clientVars, storeVars, importVars, fpVars, rosterVars, recipeVars,
                   professionVars, searchVars, guildVars, syncVars>>
nonRosterVars == <<clientVars, storeVars, importVars, fpVars, marketVars, recipeVars,
                   professionVars, searchVars, guildVars, syncVars>>
nonCatalogVars == <<clientVars, storeVars, importVars, fpVars, marketVars, rosterVars,
                    known_recipes, crafts, professionVars, searchVars, guildVars, syncVars>>
nonCraftVars == <<clientVars, storeVars, importVars, fpVars, marketVars, roster, syncs,
                  catalog, professionVars, searchVars, guildVars, syncVars>>
nonProfessionVars == <<clientVars, storeVars, importVars, fpVars, marketVars, rosterVars,
                       recipeVars, searchVars, guildVars, syncVars>>

vars == <<access_token, token_expiry, now, pc, attempt, events, result, calls,
          items, commodities, run, prev, runs, fp_payload, fp_origin, fp_first,
          mk_prices, mk_price, mk_data, mk_analysis,
          characters, roster, syncs,
          recipes, reagents, recipe_reagents, catalog, known_recipes, crafts,
          professions, profession_import,
          search,
          guilds,
          profiles, charsync>>

-----------------------------------------------------------------------------
(* Bounds of the model *)

\* _make_request calls made on the client in one behaviour
MaxCalls == 2
\* the clock stops being advanced between calls at this many seconds
MaxClock == 30
\* clock ticks per second (the jitter is a fraction of a second)
TicksPerSecond == 10
\* import_commodities runs started in one behaviour
MaxRuns == 3
\* exchanges of two keys made in one fingerprinted payload
MaxReorders == 3
\* prices in one list handed to calculate_market_price
MaxPrices == 4
\* listings in one list handed to analyze_market_data
MaxListings == 3
\* character ids known to the upstream and the store
MaxCharacters == 3
\* sync_guild_roster runs started in one behaviour
MaxSyncs == 2
\* recipe ids known to the upstream
MaxRecipes == 3
\* profession ids known to the upstream
MaxProfessions == 2
\* import_professions runs started in one behaviour
MaxImports == 2

-----------------------------------------------------------------------------
(* lib/battlenet.py: module constants *)

RETRY_STATUS_CODES == {429, 502}
NOT_FOUND_STATUS_CODES == {404}
MAX_RETRIES == 3
BASE_BACKOFF_SECONDS == 1
\* the buffer subtracted from expires_in
TOKEN_EXPIRY_BUFFER == 180

\* Python's None
None == "None"

\* Python truthiness of self.access_token: None and "" are falsy
Truthy(v) == v # None /\ v # ""

-----------------------------------------------------------------------------
(* The upstream, as the client sees it *)

\* A final response of requests.get carries a 2xx status or an error status
\* (requests follows redirects); 0 stands for a failure at the network level
\* (a RequestException that is no HTTPError: no response at all).
NetworkFailure == 0
GetResponses == {200, 429, 502, 404, 500, NetworkFailure}

\* Bearer tokens the token endpoint hands out; "" exercises the safeguard of
\* _make_request against a falsy token.
Tokens == {"", "tokA", "tokB"}
\* expires_in values (seconds) of the token endpoint: one below the buffer,
\* two above it
ExpiresIn == {170, 182, 190}
\* The token endpoint's answers: status, and on 200 the JSON body's fields
TokenResponses ==
    [status : {200}, access_token : Tokens, expires_in : ExpiresIn]
    \cup [status : {401, NetworkFailure}, access_token : {""}, expires_in : {0}]

\* Seconds by which the clock is advanced between two calls
ClockSteps == {2, 10}

\* response.raise_for_status(): HTTPError for 4xx and 5xx
RaiseForStatus(s) == s >= 400 /\ s < 600

-----------------------------------------------------------------------------
(* The log of one call: what went over the network, and the sleeps *)

PostEvent(resp) ==
    [op |-> "POST", status |-> resp.status, token |-> resp.access_token,
     expires_in |-> resp.expires_in, wait |-> 0, jitter |-> 0]
GetEvent(status, token) ==
    [op |-> "GET", status |-> status, token |-> token,
     expires_in |-> 0, wait |-> 0, jitter |-> 0]
SleepEvent(w, j) ==
    [op |-> "SLEEP", status |-> 0, token |-> "",
     expires_in |-> 0, wait |-> w, jitter |-> j]

-----------------------------------------------------------------------------
(* BattleNetAPI._get_access_token *)

\* "always refresh": the cached token is never reused
TokenFresh_never(tok, expiry, t) == FALSE

\* line 62: if self.access_token and time.time() < self.token_expiry: return
TokenFresh(tok, expiry, t) == Truthy(tok) /\ t < expiry

\* line 73: self.token_expiry = time.time() + token_data['expires_in'] - 180
TokenExpiry(t, expires_in) ==
    t + (expires_in - TOKEN_EXPIRY_BUFFER) * TicksPerSecond

\* a failed POST is swallowed: the method returns normally
_get_access_token_swallow(tok, expiry, t, resp) ==
    IF resp.status # NetworkFailure /\ ~RaiseForStatus(resp.status)
    THEN [access_token |-> resp.access_token,
          token_expiry |-> TokenExpiry(t, resp.expires_in),
          raised |-> FALSE]
    ELSE [access_token |-> tok, token_expiry |-> expiry, raised |-> FALSE]

\* lines 65-77: the POST was made and answered resp; the fields after it, and
\* whether BattleNetAPIError was raised
_get_access_token(tok, expiry, t, resp) ==
    IF resp.status # NetworkFailure /\ ~RaiseForStatus(resp.status)
    THEN [access_token |-> resp.access_token,
          token_expiry |-> TokenExpiry(t, resp.expires_in),
          raised |-> FALSE]
    ELSE [access_token |-> tok, token_expiry |-> expiry, raised |-> TRUE]

-----------------------------------------------------------------------------
(* BattleNetAPI._make_request *)

\* 500 is retried as well
IsRetryStatus_with500(s) == s \in RETRY_STATUS_CODES \cup {500}

\* line 120: e.response.status_code in RETRY_STATUS_CODES
IsRetryStatus(s) == s \in RETRY_STATUS_CODES

\* a 404 is not told apart from the other failures
IsNotFoundStatus_never(s) == FALSE

\* line 131: e.response.status_code in NOT_FOUND_STATUS_CODES
IsNotFoundStatus(s) == s \in NOT_FOUND_STATUS_CODES

\* the last retry is given up one attempt early
\* a transient answer is never retried
ShouldRetry_never(a) == FALSE

ShouldRetry_early(a) == a < MAX_RETRIES - 2

\* line 122: if attempt < MAX_RETRIES - 1
ShouldRetry(a) == a < MAX_RETRIES - 1

\* linear instead of exponential
wait_time_linear(a) == BASE_BACKOFF_SECONDS * 2 * a

\* line 123: wait_time = BASE_BACKOFF_SECONDS * (2 ** attempt), in seconds
wait_time(a) == BASE_BACKOFF_SECONDS * (2 ^ a)

\* line 124: jitter = random.uniform(0, wait_time * 0.1), in ticks
JitterChoices(w) == 0 .. ((w * TicksPerSecond) \div 10)

\* lines 94-98: the token is fetched when it is not fresh; without a token
\* the call raises, otherwise the retry loop is entered
BeginRequest ==
    /\ pc = "idle"
    /\ calls < MaxCalls
    /\ \/ /\ TokenFresh(access_token, token_expiry, now)
          /\ UNCHANGED <<access_token, token_expiry>>
          /\ events' = <<>>
          /\ pc' = "request"
          /\ result' = "pending"
       \/ /\ ~TokenFresh(access_token, token_expiry, now)
          /\ \E resp \in TokenResponses :
               LET r == _get_access_token(access_token, token_expiry, now, resp) IN
               /\ access_token' = r.access_token
               /\ token_expiry' = r.token_expiry
               /\ events' = <<PostEvent(resp)>>
               /\ IF r.raised \/ ~Truthy(r.access_token)
                  THEN pc' = "done" /\ result' = "BattleNetAPIError"
                  ELSE pc' = "request" /\ result' = "pending"
    /\ attempt' = 0
    /\ UNCHANGED <<now, calls>>
    /\ UNCHANGED nonClientVars

\* lines 113-139: one iteration of the retry loop up to its sleep
Attempt ==
    /\ pc = "request"
    /\ attempt < MAX_RETRIES
    /\ \E s \in GetResponses :
         /\ events' = Append(events, GetEvent(s, access_token))
         /\ IF s = NetworkFailure
            THEN pc' = "done" /\ result' = "BattleNetAPIError"
            ELSE IF ~RaiseForStatus(s)
            THEN pc' = "done" /\ result' = "json"
            ELSE IF IsRetryStatus(s)
            THEN IF ShouldRetry(attempt)
                 THEN pc' = "backoff" /\ result' = "pending"
                 ELSE pc' = "done" /\ result' = "None"
            ELSE IF IsNotFoundStatus(s)
            THEN pc' = "done" /\ result' = "BattleNetAPINotFoundError"
            ELSE pc' = "done" /\ result' = "BattleNetAPIError"
    /\ UNCHANGED <<access_token, token_expiry, now, attempt, calls>>
    /\ UNCHANGED nonClientVars

\* lines 123-127: time.sleep(wait_time + jitter); continue.  A loop that has
\* run out of attempts falls through to the end of the function.
Backoff ==
    /\ pc = "backoff"
    /\ \E j \in JitterChoices(wait_time(attempt)) :
         /\ events' = Append(events, SleepEvent(wait_time(attempt), j))
         /\ now' = now + wait_time(attempt) * TicksPerSecond + j
    /\ attempt' = attempt + 1
    /\ IF attempt + 1 < MAX_RETRIES
       THEN pc' = "request" /\ result' = "pending"
       ELSE pc' = "done" /\ result' = "None"
    /\ UNCHANGED <<access_token, token_expiry, calls>>
    /\ UNCHANGED nonClientVars

\* the caller takes the value or the exception
Return ==
    /\ pc = "done"
    /\ pc' = "idle"
    /\ calls' = calls + 1
    /\ events' = <<>>
    /\ result' = "pending"
    /\ attempt' = 0
    /\ UNCHANGED <<access_token, token_expiry, now>>
    /\ UNCHANGED nonClientVars

\* time passes between two calls
AdvanceClock ==
    /\ pc = "idle"
    /\ \E dt \in ClockSteps :
         /\ now + dt * TicksPerSecond <= MaxClock * TicksPerSecond
         /\ now' = now + dt * TicksPerSecond
    /\ UNCHANGED <<access_token, token_expiry, pc, attempt, events, result, calls>>
    /\ UNCHANGED nonClientVars

\* __init__, lines 50-51
ClientInit ==
    /\ access_token = None
    /\ token_expiry = 0
    /\ now = 0
    /\ pc = "idle"
    /\ attempt = 0
    /\ events = <<>>
    /\ result = "pending"
    /\ calls = 0

-----------------------------------------------------------------------------
(* JSON payloads, and the origin fingerprint (auctionhouse/jobs.py 24-32) *)

\* A JSON value: an integer, a mapping (its keys in the order the payload
\* lists them, as a Python dict keeps them) or a list.
JInt(n) == [t |-> "int", v |-> n]
JObj(pairs) == [t |-> "obj", v |-> pairs]
JList(elems) == [t |-> "list", v |-> elems]
JNull == [t |-> "null", v |-> 0]
KV(key, value) == [k |-> key, val |-> value]

\* dict.get(key): the value under key, None (JNull) when the key is missing
Get(obj, key) ==
    IF \E i \in 1..Len(obj.v) : obj.v[i].k = key
    THEN obj.v[CHOOSE i \in 1..Len(obj.v) : obj.v[i].k = key].val
    ELSE JNull

\* Python's order of the key strings the payloads use (by code point)
KeyRank(key) ==
    CASE key = "_links" -> 0
      [] key = "auctions" -> 1
      [] key = "id" -> 2
      [] key = "item" -> 3
      [] key = "quantity" -> 4
      [] key = "unit_price" -> 5

RECURSIVE SortByKey(_)
SortByKey(pairs) ==
    IF pairs = <<>> THEN <<>>
    ELSE LET m == CHOOSE i \in 1..Len(pairs) :
                     \A j \in 1..Len(pairs) : KeyRank(pairs[i].k) <= KeyRank(pairs[j].k)
             rest == [i \in 1..Len(pairs) - 1 |-> IF i < m THEN pairs[i] ELSE pairs[i + 1]]
         IN <<pairs[m]>> \o SortByKey(rest)

\* json.dumps without sort_keys: the keys stay in the payload's order
OrderKeys_asis(pairs) == pairs

\* json.dumps(..., sort_keys=True): the keys of every mapping, sorted
OrderKeys(pairs) == SortByKey(pairs)

RECURSIVE JsonDumps(_)
RECURSIVE JoinValues(_)
RECURSIVE JoinPairs(_)

\* the elements of a list, separated by ", "
JoinValues(elems) ==
    IF elems = <<>> THEN ""
    ELSE IF Len(elems) = 1 THEN JsonDumps(elems[1])
    ELSE JsonDumps(elems[1]) \o ", " \o JoinValues(Tail(elems))

\* the members of a mapping: "key": value, separated by ", "
JoinPairs(pairs) ==
    IF pairs = <<>> THEN ""
    ELSE LET one == "\"" \o pairs[1].k \o "\": " \o JsonDumps(pairs[1].val) IN
         IF Len(pairs) = 1 THEN one ELSE one \o ", " \o JoinPairs(Tail(pairs))

\* json.dumps(response, sort_keys=True)
JsonDumps(value) ==
    IF value.t = "null" THEN "null"
    ELSE IF value.t = "int" THEN ToString(value.v)
    ELSE IF value.t = "list" THEN "[" \o JoinValues(value.v) \o "]"
    ELSE "{" \o JoinPairs(OrderKeys(value.v)) \o "}"

\* hashlib.sha256(...).hexdigest(): a function of the bytes hashed, taken to
\* be free of collisions
Sha256Hex(bytes) == "sha256(" \o bytes \o ")"

\* lines 31-32: the origin of a response
Origin(response) == Sha256Hex(JsonDumps(response))

\* One listing of the commodities payload, and a payload
Listing(item_id, unit_price, quantity) ==
    JObj(<<KV("item", JObj(<<KV("id", JInt(item_id))>>)),
           KV("quantity", JInt(quantity)),
           KV("unit_price", JInt(unit_price))>>)
Payload(listings) ==
    JObj(<<KV("_links", JObj(<<>>)), KV("auctions", JList(listings))>>)

\* pairs with the members at i and i + 1 exchanged
SwapAdjacent(pairs, i) ==
    [j \in 1..Len(pairs) |->
        IF j = i THEN pairs[i + 1] ELSE IF j = i + 1 THEN pairs[i] ELSE pairs[j]]

\* The payloads that differ from value in the order of two neighbouring keys
\* of one mapping, at any depth
RECURSIVE Reorderings(_)
Reorderings(value) ==
    IF value.t = "obj"
    THEN {JObj(SwapAdjacent(value.v, i)) : i \in 1..Len(value.v) - 1}
         \cup UNION {{JObj([value.v EXCEPT ![i].val = w]) : w \in Reorderings(value.v[i].val)}
                      : i \in 1..Len(value.v)}
    ELSE IF value.t = "list"
    THEN UNION {{JList([value.v EXCEPT ![i] = w]) : w \in Reorderings(value.v[i])}
                 : i \in 1..Len(value.v)}
    ELSE {}

-----------------------------------------------------------------------------
(* lib/market.py *)

MinOf(S) == CHOOSE x \in S : \A y \in S : x <= y
MaxOf(S) == CHOOSE x \in S : \A y \in S : x >= y
Range(seq) == {seq[i] : i \in 1..Len(seq)}
RECURSIVE SumSeq(_)
SumSeq(seq) == IF seq = <<>> THEN 0 ELSE seq[1] + SumSeq(Tail(seq))
Abs(x) == IF x < 0 THEN -x ELSE x

\* line 85: the floor of eps
EPS_FLOOR == 1000

WithinEps_nofloor(d, price_range) == 20 * d <= price_range

\* lines 83-85: eps_value = max(price_range * 0.05, 1000); whether a distance
\* d is within eps (0.05 = 1/20)
WithinEps(d, price_range) == d <= EPS_FLOOR \/ 20 * d <= price_range

\* line 87, DBSCAN(eps, min_samples=2): the points in the eps-neighbourhood of
\* point i (itself included)
Neighbours(prices, i) ==
    LET price_range == MaxOf(Range(prices)) - MinOf(Range(prices))
    IN {j \in 1..Len(prices) : WithinEps(Abs(prices[i] - prices[j]), price_range)}

\* a core point has at least min_samples = 2 points in its neighbourhood
IsCore(prices, i) == Cardinality(Neighbours(prices, i)) >= 2

\* the points density-reachable from the set S of core points
RECURSIVE Expand(_, _)
Expand(prices, S) ==
    LET T == S \cup UNION {Neighbours(prices, i) : i \in {k \in S : IsCore(prices, k)}}
    IN IF T = S THEN S ELSE Expand(prices, T)

\* labels_: the clusters, as sets of positions; the other points are noise (-1)
Clusters(prices) ==
    {Expand(prices, {i}) : i \in {k \in 1..Len(prices) : IsCore(prices, k)}}

RECURSIVE SumAt(_, _)
SumAt(prices, A) ==
    IF A = {} THEN 0
    ELSE LET i == CHOOSE k \in A : TRUE IN prices[i] + SumAt(prices, A \ {i})

MeanBelow_reversed(prices, A, B) ==
    SumAt(prices, A) * Cardinality(B) > SumAt(prices, B) * Cardinality(A)

\* lines 104-109: np.mean of cluster A is below that of cluster B
MeanBelow(prices, A, B) ==
    SumAt(prices, A) * Cardinality(B) < SumAt(prices, B) * Cardinality(A)

\* the lowest price of the list, noise or not
calculate_market_price_globalmin(prices) ==
    IF prices = <<>> THEN 0 ELSE MinOf(Range(prices))

calculate_market_price_first(prices) ==
    IF prices = <<>> THEN 0
    ELSE IF Len(prices) < 3 THEN prices[1]
    ELSE LET clusters == Clusters(prices)
         IN IF clusters = {} THEN MinOf(Range(prices))
            ELSE LET best == CHOOSE A \in clusters :
                                \A B \in clusters \ {A} : MeanBelow(prices, A, B)
                 IN MinOf({prices[i] : i \in best})

calculate_market_price_fallbackmax(prices) ==
    IF prices = <<>> THEN 0
    ELSE IF Len(prices) < 3 THEN MinOf(Range(prices))
    ELSE LET clusters == Clusters(prices)
         IN IF clusters = {} THEN MaxOf(Range(prices))
            ELSE LET best == CHOOSE A \in clusters :
                                \A B \in clusters \ {A} : MeanBelow(prices, A, B)
                 IN MinOf({prices[i] : i \in best})

calculate_market_price_clustermax(prices) ==
    IF prices = <<>> THEN 0
    ELSE IF Len(prices) < 3 THEN MinOf(Range(prices))
    ELSE LET clusters == Clusters(prices)
         IN IF clusters = {} THEN MinOf(Range(prices))
            ELSE LET best == CHOOSE A \in clusters :
                                \A B \in clusters \ {A} : MeanBelow(prices, A, B)
                 IN MaxOf({prices[i] : i \in best})

\* lines 54-113
calculate_market_price(prices) ==
    IF prices = <<>> THEN 0
    ELSE IF Len(prices) < 3 THEN MinOf(Range(prices))
    ELSE LET clusters == Clusters(prices)
         IN IF clusters = {} THEN MinOf(Range(prices))
            ELSE LET best == CHOOSE A \in clusters :
                                \A B \in clusters \ {A} : MeanBelow(prices, A, B)
                 IN MinOf({prices[i] : i \in best})

\* line 27: listing.get('item', {}).get('id')
ListingItemId(listing) ==
    IF Get(listing, "item").t # "obj" THEN JNull
    ELSE Get(Get(listing, "item"), "id")

HasItemId_zero_too(listing) == ListingItemId(listing).t = "int"

\* line 28: if item_id (None and 0 are falsy)
HasItemId(listing) ==
    ListingItemId(listing).t = "int" /\ ListingItemId(listing).v # 0

\* the item ids of the listings, by ascending id
ItemOrder_byid(listings) ==
    LET ids == {ListingItemId(listings[k]).v :
                   k \in {i \in 1..Len(listings) : HasItemId(listings[i])}}
        RECURSIVE Ascending(_)
        Ascending(S) ==
            IF S = {} THEN <<>>
            ELSE LET least == CHOOSE x \in S : \A y \in S : x <= y
                 IN <<least>> \o Ascending(S \ {least})
    IN Ascending(ids)

\* lines 25-29: the item ids of the listings, each once, in the order of
\* their first listing; a listing whose item id is falsy is dropped
RECURSIVE ItemOrder(_)
ItemOrder(listings) ==
    IF listings = <<>> THEN <<>>
    ELSE LET init == ItemOrder(SubSeq(listings, 1, Len(listings) - 1))
             last == listings[Len(listings)]
         IN IF ~HasItemId(last) \/ ListingItemId(last).v \in Range(init) THEN init
            ELSE Append(init, ListingItemId(last).v)

\* the listings of one item, in the order of the payload
ListingsOf(listings, item_id) ==
    SelectSeq(listings, LAMBDA l : HasItemId(l) /\ ListingItemId(l).v = item_id)

\* the entry of one item, the mean of its unit prices as the market price
AnalyzeItem_meanprice(listings, item_id) ==
    LET mine == ListingsOf(listings, item_id)
        prices == [i \in 1..Len(mine) |-> Get(mine[i], "unit_price").v]
        quantities == [i \in 1..Len(mine) |-> Get(mine[i], "quantity").v]
    IN [item_id |-> item_id,
        min_price |-> MinOf(Range(prices)),
        max_price |-> MaxOf(Range(prices)),
        market_price |-> SumSeq(prices) \div Len(prices),
        total_quantity |-> SumSeq(quantities)]

\* lines 35-50: the entry of one item
AnalyzeItem(listings, item_id) ==
    LET mine == ListingsOf(listings, item_id)
        prices == [i \in 1..Len(mine) |-> Get(mine[i], "unit_price").v]
        quantities == [i \in 1..Len(mine) |-> Get(mine[i], "quantity").v]
    IN [item_id |-> item_id,
        min_price |-> MinOf(Range(prices)),
        max_price |-> MaxOf(Range(prices)),
        market_price |-> calculate_market_price(prices),
        total_quantity |-> SumSeq(quantities)]

\* lines 7-52: the result, as the sequence of its entries in key order
analyze_market_data(data) ==
    [n \in 1..Len(ItemOrder(data)) |-> AnalyzeItem(data, ItemOrder(data)[n])]

-----------------------------------------------------------------------------
(* The upstream, as the importer sees it *)

\* How one call of the client ends for its caller: the values of result
CallOutcomes == {"json", "BattleNetAPINotFoundError", "BattleNetAPIError", "None"}

\* the same listing, its keys in another order
ListingReordered(item_id, unit_price, quantity) ==
    JObj(<<KV("unit_price", JInt(unit_price)),
           KV("quantity", JInt(quantity)),
           KV("item", JObj(<<KV("id", JInt(item_id))>>))>>)

\* Commodity snapshots the upstream serves.  SnapA lists item 1 three times
\* (two prices close to each other and an outlier) and a listing without an
\* item id; SnapA2 is SnapA with mapping keys in another order; SnapB is a
\* later snapshot, which lists item 3 before item 2.
SnapA ==
    Payload(<<Listing(1, 100, 2), Listing(2, 50, 5), Listing(1, 102, 1),
              Listing(1, 5000, 1), Listing(0, 7, 1)>>)
SnapA2 ==
    JObj(<<KV("auctions",
              JList(<<ListingReordered(1, 100, 2), Listing(2, 50, 5),
                      ListingReordered(1, 102, 1), Listing(1, 5000, 1),
                      ListingReordered(0, 7, 1)>>)),
           KV("_links", JObj(<<>>))>>)
SnapB ==
    Payload(<<Listing(3, 10, 4), Listing(2, 60, 1), Listing(3, 12, 4)>>)
Snapshots == {SnapA, SnapA2, SnapB}

-----------------------------------------------------------------------------
(* The store: gamedata.Item and auctionhouse.Commodity *)

\* the origin is left out of the filter
ExistingCommodities_anyorigin(store, origin) ==
    {store[i].item : i \in 1..Len(store)}

\* line 35: Commodity.objects.filter(origin=origin).values_list('item__id')
ExistingCommodities(store, origin) ==
    {store[i].item : i \in {k \in 1..Len(store) : store[k].origin = origin}}

\* line 36: Item.objects.all().values_list('id', flat=True)
ExistingItems(item_ids) == item_ids

\* the constraint is not declared
ViolatesUnique_off(store, item, origin) == FALSE

\* Commodity.Meta.unique_together = [['item', 'origin']]: an insert of a
\* second row with the pair fails with IntegrityError
ViolatesUnique(store, item, origin) ==
    \E i \in 1..Len(store) : store[i].item = item /\ store[i].origin = origin

\* Commodity.objects.create(...), lines 75-81 (timestamp left out)
NewCommodity(store, item, entry, origin) ==
    [id |-> Len(store) + 1, item |-> item, quantity |-> entry.total_quantity,
     market_price |-> entry.market_price, origin |-> origin]

-----------------------------------------------------------------------------
(* auctionhouse/jobs.py: AuctionHouseImporter.import_commodities *)

Workers == {1, 2}

\* a worker that has not run import_commodities yet
IdleRun ==
    [state |-> "idle", origin |-> "", market_data |-> <<>>, idx |-> 1,
     ec_cached |-> FALSE, existing_commodities |-> {},
     ei_cached |-> FALSE, existing_items |-> {},
     num_added |-> 0, num_skipped |-> 0,
     created |-> {}, not_found |-> {}, error |-> ""]

NoRun ==
    [state |-> "none", origin |-> "", item_ids |-> {}, num_added |-> 0,
     num_skipped |-> 0, created |-> {}, not_found |-> {}]

\* what is known of a run that ended
Summary(r) ==
    [state |-> r.state, origin |-> r.origin,
     item_ids |-> {r.market_data[i].item_id : i \in 1..Len(r.market_data)},
     num_added |-> r.num_added, num_skipped |-> r.num_skipped,
     created |-> r.created, not_found |-> r.not_found]

\* line 91: the summary import_commodities returns
ReturnedSummary(r) == [num_added |-> r.num_added, num_skipped |-> r.num_skipped]

\* the skip is not counted
SkipItem_uncounted(r) == [r EXCEPT !.idx = @ + 1]

\* lines 42-45: num_skipped += 1; continue
SkipItem(r) == [r EXCEPT !.num_skipped = @ + 1, !.idx = @ + 1]

\* lines 52-56: except BattleNetAPINotFoundError: continue
SkipNotFound(r, item_id) ==
    [r EXCEPT !.idx = @ + 1, !.not_found = @ \cup {item_id}]

\* lines 87-89: any exception ends the run with AuctionHouseImportError
Raise(r, cause) == [r EXCEPT !.state = "raised", !.error = cause]

\* lines 82-85: num_added += 1, twice
CountAdded(r, item_id) ==
    [r EXCEPT !.num_added = @ + 1 + 1, !.idx = @ + 1, !.created = @ \cup {item_id}]

\* lines 31-39: the origin and the market analysis of a response
Prepare(response) ==
    [origin |-> Origin(response),
     market_data |-> analyze_market_data(Get(response, "auctions").v)]

\* Prepare, tabulated over the snapshots
Prepared == [response \in Snapshots |-> Prepare(response)]

\* lines 20-39: get_commodities, the origin, the two (lazy) queries and the
\* market analysis
StartRun(w) ==
    /\ run[w].state # "running"
    /\ runs < MaxRuns
    /\ runs' = runs + 1
    /\ prev' = IF run[w].state \in {"returned", "raised"} THEN Summary(run[w]) ELSE prev
    /\ \E outcome \in CallOutcomes :
         IF outcome = "json"
         THEN \E response \in Snapshots :
                run' = [run EXCEPT ![w] =
                          [IdleRun EXCEPT !.state = "running",
                                          !.origin = Prepared[response].origin,
                                          !.market_data = Prepared[response].market_data]]
         ELSE run' = [run EXCEPT ![w] = Raise(IdleRun, outcome)]
    /\ UNCHANGED <<storeVars, nonImportVars>>

\* the rows the run wrote are taken back when it is aborted
Abort_rollback(w, r, cause) ==
    /\ run' = [run EXCEPT ![w] = Raise(r, cause)]
    /\ items' = items \ r.created
    /\ commodities' = SelectSeq(commodities,
                                LAMBDA c : ~(c.origin = r.origin /\ c.item \in r.created))

\* lines 87-89, for an exception of an upstream call in the loop: the run
\* ends with AuctionHouseImportError.  No transaction is open around the run
\* or the loop, so each row written by an earlier statement is committed and
\* stays.
Abort(w, r, cause) ==
    /\ run' = [run EXCEPT ![w] = Raise(r, cause)]
    /\ UNCHANGED storeVars

\* the refused insert is counted as a skip and the run goes on
CreateRows_skipdup(w, r, entry, with_item) ==
    /\ items' = (IF with_item THEN items \cup {entry.item_id} ELSE items)
    /\ IF ViolatesUnique(commodities, entry.item_id, r.origin)
       THEN /\ commodities' = commodities
            /\ run' = [run EXCEPT ![w] = SkipItem(r)]
       ELSE /\ commodities' =
                 Append(commodities, NewCommodity(commodities, entry.item_id, entry, r.origin))
            /\ run' = [run EXCEPT ![w] = CountAdded(r, entry.item_id)]

\* the row of the item is written over when the item has one
CreateRows_overwrite(w, r, entry, with_item) ==
    /\ items' = (IF with_item THEN items \cup {entry.item_id} ELSE items)
    /\ commodities' =
          IF \E i \in 1..Len(commodities) : commodities[i].item = entry.item_id
          THEN [i \in 1..Len(commodities) |->
                   IF commodities[i].item = entry.item_id
                   THEN [commodities[i] EXCEPT
                            !.quantity = entry.total_quantity,
                            !.market_price = entry.market_price,
                            !.origin = r.origin]
                   ELSE commodities[i]]
          ELSE Append(commodities, NewCommodity(commodities, entry.item_id, entry, r.origin))
    /\ run' = [run EXCEPT ![w] = CountAdded(r, entry.item_id)]

\* lines 64-85, for an item whose Item row is there or was just fetched:
\* get_or_create of the Item (its name, class and icon are what the upstream
\* serves for the id, so an Item row that is there is the one looked up),
\* then create of the Commodity.  Each statement is committed as it is made.
CreateRows(w, r, entry, with_item) ==
    /\ items' = (IF with_item THEN items \cup {entry.item_id} ELSE items)
    /\ IF ViolatesUnique(commodities, entry.item_id, r.origin)
       THEN /\ commodities' = commodities
            /\ run' = [run EXCEPT ![w] = Raise(r, "IntegrityError")]
       ELSE /\ commodities' =
                 Append(commodities, NewCommodity(commodities, entry.item_id, entry, r.origin))
            /\ run' = [run EXCEPT ![w] = CountAdded(r, entry.item_id)]

\* lines 41-85: one iteration of `for item_id in market_data`.  The two
\* querysets are evaluated by their first membership test and cached.
ProcessItem(w) ==
    /\ run[w].state = "running"
    /\ run[w].idx <= Len(run[w].market_data)
    /\ LET r0 == run[w]
           entry == r0.market_data[r0.idx]
           ec == IF r0.ec_cached THEN r0.existing_commodities
                 ELSE ExistingCommodities(commodities, r0.origin)
           r1 == [r0 EXCEPT !.ec_cached = TRUE, !.existing_commodities = ec]
           ei == IF r1.ei_cached THEN r1.existing_items ELSE ExistingItems(items)
           r2 == [r1 EXCEPT !.ei_cached = TRUE, !.existing_items = ei]
       IN IF entry.item_id \in ec
          THEN /\ run' = [run EXCEPT ![w] = SkipItem(r1)]
               /\ UNCHANGED storeVars
          ELSE IF entry.item_id \in ei
          THEN CreateRows(w, r2, entry, FALSE)
          ELSE \E item_response \in CallOutcomes :
                 IF item_response = "BattleNetAPINotFoundError"
                 THEN /\ run' = [run EXCEPT ![w] = SkipNotFound(r2, entry.item_id)]
                      /\ UNCHANGED storeVars
                 ELSE IF item_response = "BattleNetAPIError"
                 THEN Abort(w, r2, item_response)
                 ELSE \E item_media_response \in CallOutcomes :
                        IF item_media_response # "json"
                        THEN Abort(w, r2, IF item_media_response = "None"
                                          THEN "TypeError"
                                          ELSE item_media_response)
                        ELSE IF item_response = "None"
                        THEN Abort(w, r2, "TypeError")
                        ELSE CreateRows(w, r2, entry, TRUE)
    /\ UNCHANGED <<prev, runs, nonImportVars>>

\* line 91: return {"num_added": num_added, "num_skipped": num_skipped}
FinishRun(w) ==
    /\ run[w].state = "running"
    /\ run[w].idx > Len(run[w].market_data)
    /\ run' = [run EXCEPT ![w].state = "returned"]
    /\ UNCHANGED <<prev, runs, storeVars, nonImportVars>>

ImportInit ==
    /\ items = {}
    /\ commodities = <<>>
    /\ run = [w \in Workers |-> IdleRun]
    /\ prev = NoRun
    /\ runs = 0

-----------------------------------------------------------------------------
(* The origin fingerprint on its own: payloads whose keys are reordered *)

FpPayloads ==
    {Payload(<<Listing(1, 100, 2)>>),
     Payload(<<Listing(1, 100, 2), ListingReordered(2, 50, 5)>>),
     SnapB}

NoFingerprint == [origin |-> "", at |-> 0]

\* the upstream serves the payload with two keys of one mapping exchanged
ReorderKeys ==
    /\ fp_payload.n < MaxReorders
    /\ \E p \in Reorderings(fp_payload.payload) :
         fp_payload' = [payload |-> p, n |-> fp_payload.n + 1]
    /\ UNCHANGED <<fp_origin, fp_first, nonFpVars>>

\* lines 24-32: origin_hash.update(json.dumps(response, sort_keys=True)...)
ComputeOrigin ==
    /\ fp_origin' = [origin |-> Origin(fp_payload.payload), at |-> fp_payload.n]
    /\ fp_first' = IF fp_first = NoFingerprint THEN fp_origin' ELSE fp_first
    /\ UNCHANGED <<fp_payload, nonFpVars>>

FpIdle ==
    /\ fp_payload = [payload |-> JNull, n |-> 0]
    /\ fp_origin = NoFingerprint
    /\ fp_first = NoFingerprint

FpInit ==
    /\ fp_payload \in [payload : FpPayloads, n : {0}]
    /\ fp_origin = NoFingerprint
    /\ fp_first = NoFingerprint

-----------------------------------------------------------------------------
(* lib/market.py on its own: the two functions applied to their arguments *)

\* the sequences over S of at most n members
RECURSIVE SeqsUpTo(_, _)
SeqsUpTo(S, n) ==
    IF n = 0 THEN {<<>>}
    ELSE LET shorter == SeqsUpTo(S, n - 1)
         IN shorter \cup {Append(s, x) : s \in {t \in shorter : Len(t) = n - 1}, x \in S}

\* Unit prices of one item.  Some lie within the floor of eps of each other
\* (100, 900, 1500 in a chain), some only within 5% of a wide range (3000 and
\* 4500 when 40000 is listed), some are far from everything.
PriceValues == {100, 900, 1500, 3000, 4500, 40000}
PriceLists == SeqsUpTo(PriceValues, MaxPrices)

\* a listing without the 'item' key
ListingWithoutItem(unit_price, quantity) ==
    JObj(<<KV("quantity", JInt(quantity)), KV("unit_price", JInt(unit_price))>>)

\* Listings of the commodities payload: of items 1 and 2, of item id 0, and
\* one that names no item; the three prices of item 1 are far from each other
MarketListings ==
    {Listing(1, 100, 1), Listing(1, 5000, 5), Listing(1, 40000, 1),
     Listing(2, 100, 5), Listing(2, 5000, 1),
     Listing(0, 100, 1), ListingWithoutItem(100, 1)}
DataLists == SeqsUpTo(MarketListings, MaxListings)

Unresolved == [resolved |-> FALSE, value |-> 0, labels |-> {}]
NotAnalyzed == [done |-> FALSE, entries |-> <<>>]

\* market_price = calculate_market_price(prices); labels holds the clusters
\* of db.labels_ (line 88) when the list is long enough to be clustered
ResolvePrice ==
    /\ ~mk_price.resolved
    /\ mk_price' = [resolved |-> TRUE,
                    value |-> calculate_market_price(mk_prices),
                    labels |-> IF Len(mk_prices) < 3 THEN {} ELSE Clusters(mk_prices)]
    /\ UNCHANGED <<mk_prices, mk_data, mk_analysis, nonMarketVars>>

\* market_analysis = analyze_market_data(data)
AnalyzeMarket ==
    /\ ~mk_analysis.done
    /\ mk_analysis' = [done |-> TRUE, entries |-> analyze_market_data(mk_data)]
    /\ UNCHANGED <<mk_prices, mk_price, mk_data, nonMarketVars>>

MarketIdle ==
    /\ mk_prices = <<>>
    /\ mk_price = Unresolved
    /\ mk_data = <<>>
    /\ mk_analysis = NotAnalyzed

MarketInit ==
    /\ \/ mk_prices \in PriceLists /\ mk_data = <<>>
       \/ mk_prices = <<>> /\ mk_data \in DataLists
    /\ mk_price = Unresolved
    /\ mk_analysis = NotAnalyzed

-----------------------------------------------------------------------------
(* The store: guild.Character (guild/models.py 47-72) *)

CharacterIds == 1..MaxCharacters
Levels == {1, 2}

\* Character.guild: the guild being synced, another guild, or NULL
ThisGuild == "ThisGuild"
OtherGuild == "OtherGuild"

\* A Character row.  level stands for the fields of the row that the roster
\* reports besides the id (name, level, guild_rank, realm, class, race).
Character(id, guild, level) == [id |-> id, guild |-> guild, level |-> level]

\* the ids of the Character rows
CharacterRowIds(rows) == {row.id : row \in rows}

\* id is the primary key of Character
CharacterStores ==
    {rows \in SUBSET {Character(id, guild, 1) :
                        id \in CharacterIds, guild \in {ThisGuild, OtherGuild, None}} :
        \A a, b \in rows : a.id = b.id => a = b}

\* import_guild has stored both guilds
GuildsIdle == guilds = {ThisGuild, OtherGuild}

\* Character.guild is a foreign key: the guild of a character is stored
GuildsInit ==
    /\ guilds \in {{OtherGuild}, {ThisGuild, OtherGuild}}
    /\ \A row \in characters : row.guild \in guilds \cup {None}

-----------------------------------------------------------------------------
(* guild/jobs.py: GuildDataImporter.sync_guild_roster *)

\* the id column of the outer join of a guild without characters (NULL)
NullId == 0

\* line 56: guild.values_list('character__id', flat=True); the join of the
\* guild with its characters has one row with a NULL id when there is none.
\* The queryset is read at the first membership test (line 62) or at line 85
\* and kept; no row is written before, so it holds the roster at the start.
ExistingMemberIds(rows) ==
    LET ids == {row.id : row \in {r \in rows : r.guild = ThisGuild}}
    IN IF ids = {} THEN {NullId} ELSE ids

\* line 58: the rosters the upstream reports, response['members']: members in
\* the order of their ids, each with its level
Member(id, level) == [id |-> id, level |-> level]
RECURSIVE RosterResponsesOver(_)
RosterResponsesOver(n) ==
    IF n = 0 THEN {<<>>}
    ELSE LET shorter == RosterResponsesOver(n - 1)
         IN shorter \cup {Append(r, Member(n, level)) : r \in shorter, level \in Levels}
RosterResponses == RosterResponsesOver(MaxCharacters)

IdleRoster ==
    [pc |-> "idle", at |-> "idle", asked |-> FALSE, existing_member_ids |-> {},
     members |-> <<>>,
     todo |-> <<>>, added_or_skipped |-> {}, num_added |-> 0, num_skipped |-> 0,
     num_removed |-> 0, outcome |-> "pending"]

\* lines 94-95: except Exception: raise GuildDataImportError
RaiseGuildDataImportError(r, where) ==
    [r EXCEPT !.pc = "done", !.at = where, !.outcome = "GuildDataImportError"]

\* the guild is taken as found whatever the store holds
GuildFound_always(rows) == TRUE

\* lines 52-53: guild = Guild.objects.filter(name=name, realm=realm);
\* `if not guild` is true of the empty queryset
GuildFound(rows) == ThisGuild \in rows

\* lines 47-58: the guild is looked up, and when it is found the roster is
\* asked for (asked: get_guild_roster was called)
StartSync ==
    /\ roster.pc = "idle"
    /\ syncs < MaxSyncs
    /\ syncs' = syncs + 1
    /\ IF ~GuildFound(guilds)
       THEN \* line 54, caught and raised again by lines 94-95
            roster' = RaiseGuildDataImportError(IdleRoster, "guild")
       ELSE \E outcome \in CallOutcomes :
              IF outcome = "json"
              THEN \E response \in RosterResponses :
                      roster' = [IdleRoster EXCEPT
                                    !.pc = "members",
                                    !.asked = TRUE,
                                    !.existing_member_ids = ExistingMemberIds(characters),
                                    !.members = response,
                                    !.todo = response]
              ELSE \* the client raised, or returned None and
                   \* response['members'] raises TypeError
                   roster' = RaiseGuildDataImportError(
                                [IdleRoster EXCEPT !.asked = TRUE], "call")
    /\ UNCHANGED <<characters, nonRosterVars>>

\* lines 71-80: Character.objects.get_or_create(id=..., ..., guild=guild[0], ...)
\* finds the row that has all these values, and else inserts one; the insert
\* of an id that has a row raises IntegrityError
GetOrCreateRaises(rows, member) ==
    /\ Character(member.id, ThisGuild, member.level) \notin rows
    /\ member.id \in CharacterRowIds(rows)
GetOrCreate(rows, member) ==
    rows \cup {Character(member.id, ThisGuild, member.level)}

\* lines 61-82: one turn of the loop over response['members'].  The
\* PlayableClass and PlayableRace rows of the member are in the store (lines
\* 68-69 find them).
AddOrSkipMember ==
    /\ roster.pc = "members"
    /\ roster.todo # <<>>
    /\ LET member == Head(roster.todo)
       IN IF member.id \in roster.existing_member_ids
          THEN /\ roster' = [roster EXCEPT
                                !.todo = Tail(@),
                                !.num_skipped = @ + 1,
                                !.added_or_skipped = @ \cup {member.id}]
               /\ UNCHANGED characters
          ELSE IF GetOrCreateRaises(characters, member)
          THEN /\ roster' = RaiseGuildDataImportError(roster, "members")
               /\ UNCHANGED characters
          ELSE /\ characters' = GetOrCreate(characters, member)
               /\ roster' = [roster EXCEPT
                                !.todo = Tail(@),
                                !.num_added = @ + 1,
                                !.added_or_skipped = @ \cup {member.id}]
    /\ UNCHANGED <<syncs, nonRosterVars>>

\* line 85
member_ids_to_remove(r) == r.existing_member_ids \ r.added_or_skipped

\* lines 84-103: the removals and the return.  Line 88 binds member to a
\* QuerySet (filter, not get): line 89 sets an attribute on that object and
\* line 90 calls save(), which a QuerySet does not have; the AttributeError
\* is raised in the first turn of the loop, before any row is written and
\* before num_removed is counted.
RemoveMembers ==
    /\ roster.pc = "members"
    /\ roster.todo = <<>>
    /\ IF member_ids_to_remove(roster) = {}
       THEN roster' = [roster EXCEPT !.pc = "done", !.at = "return",
                                     !.outcome = "returned"]
       ELSE roster' = RaiseGuildDataImportError(roster, "remove")
    /\ UNCHANGED <<characters, syncs, nonRosterVars>>

\* the run is over; the next one may start
EndSync ==
    /\ roster.pc = "done"
    /\ roster' = IdleRoster
    /\ UNCHANGED <<characters, syncs, nonRosterVars>>

RosterIdle ==
    /\ characters = {}
    /\ roster = IdleRoster
    /\ syncs = 0

RosterInit ==
    /\ characters \in CharacterStores
    /\ roster = IdleRoster
    /\ syncs = 0

-----------------------------------------------------------------------------
(* The recipe catalog: upstream and store (gamedata/models.py 71-95) *)

RecipeIds == 1..MaxRecipes

\* ProfessionSkillTier rows; import_profession_skill_tiers has stored them
SkillTiers == {1, 2}

\* the skill tier that lists a recipe upstream
TierOf(id) == IF id % 2 = 1 THEN 1 ELSE 2

\* skill_tier_response['categories'][..]['recipes'] of one tier, by id
RECURSIVE TierRecipesUpTo(_, _)
TierRecipesUpTo(tier, n) ==
    IF n = 0 THEN <<>>
    ELSE IF TierOf(n) = tier THEN Append(TierRecipesUpTo(tier, n - 1), n)
    ELSE TierRecipesUpTo(tier, n - 1)
TierRecipes(tier) == TierRecipesUpTo(tier, MaxRecipes)

\* recipe_response['reagents'] of a recipe, as reagent ids; absent for some
RecipeReagents(id) == IF id = 1 THEN {1} ELSE IF id = 2 THEN {1, 2} ELSE {}

\* The stores in which every RecipeReagent row has its Recipe and Reagent
\* (foreign keys): the recipes in have been imported, with their reagents
CatalogStore(imported) ==
    [recipes |-> imported,
     reagents |-> UNION {RecipeReagents(id) : id \in imported},
     recipe_reagents |-> UNION {{<<id, reagent>> : reagent \in RecipeReagents(id)}
                                  : id \in imported}]

-----------------------------------------------------------------------------
(* gamedata/jobs.py: GameDataImporter.sync_recipe *)

\* Lines 156-168: how sync_recipe ends, given the outcomes of get_recipe_media
\* and get_recipe.  A client exception leaves at the call; a None response
\* raises TypeError where it is subscripted (line 164) or searched (line 192).
SyncRecipeOutcome(media, detail) ==
    IF media \in {"BattleNetAPINotFoundError", "BattleNetAPIError"} THEN media
    ELSE IF detail \in {"BattleNetAPINotFoundError", "BattleNetAPIError"} THEN detail
    ELSE IF media = "None" \/ detail = "None" THEN "TypeError"
    ELSE "created"

\* lines 161-185: the rows after sync_recipe(id) went through
SyncRecipeStore(store, id) ==
    [recipes |-> store.recipes \cup {id},
     reagents |-> store.reagents \cup RecipeReagents(id),
     recipe_reagents |-> store.recipe_reagents
                         \cup {<<id, reagent>> : reagent \in RecipeReagents(id)}]

\* line 187: what sync_recipe(id) returns
SyncRecipeResults(id) ==
    [num_recipes_added |-> 1, num_reagents_added |-> Cardinality(RecipeReagents(id))]

TheStore == [recipes |-> recipes, reagents |-> reagents, recipe_reagents |-> recipe_reagents]

\* the store becomes new
StoreBecomes(new) ==
    /\ recipes' = new.recipes
    /\ reagents' = new.reagents
    /\ recipe_reagents' = new.recipe_reagents

-----------------------------------------------------------------------------
(* gamedata/jobs.py: GameDataImporter.import_recipes_and_reagents *)

RECURSIVE SeqOfSet(_)
SeqOfSet(S) ==
    IF S = {} THEN <<>>
    ELSE LET least == CHOOSE x \in S : \A y \in S : x <= y
         IN <<least>> \o SeqOfSet(S \ {least})

IdleCatalog ==
    [pc |-> "idle", skill_tiers |-> <<>>, skill_tier |-> 0, known_recipes |-> {},
     todo |-> <<>>, num_recipes_added |-> 0, num_reagents_added |-> 0,
     outcome |-> "pending", cause |-> "none", not_found |-> {}]

\* lines 242-244: except Exception: raise GameDataImportError
RaiseGameDataImportError(c, cause) ==
    [c EXCEPT !.pc = "done", !.outcome = "GameDataImportError", !.cause = cause]

\* lines 208-216.  known_recipes is a queryset, read from the store at the
\* first membership test (line 230) and kept; no recipe is written before
\* that test, so it holds the recipes of the store at the start of the run.
StartCatalogImport ==
    /\ catalog.pc = "idle"
    /\ catalog.outcome = "pending"
    /\ catalog' = [IdleCatalog EXCEPT
                      !.pc = "tier",
                      !.skill_tiers = SeqOfSet(SkillTiers),
                      !.known_recipes = recipes]
    /\ UNCHANGED <<catalogStoreVars, nonCatalogVars>>

\* lines 221-224: the next skill tier is asked for; after the last, line 246
NextSkillTier ==
    /\ catalog.pc = "tier"
    /\ IF catalog.skill_tiers = <<>>
       THEN catalog' = [catalog EXCEPT !.pc = "done", !.outcome = "returned"]
       ELSE \E outcome \in CallOutcomes :
               IF outcome = "json"
               THEN catalog' = [catalog EXCEPT
                                   !.pc = "recipes",
                                   !.skill_tier = Head(catalog.skill_tiers),
                                   !.skill_tiers = Tail(@),
                                   !.todo = TierRecipes(Head(catalog.skill_tiers))]
               ELSE \* None has no get(): AttributeError
                    catalog' = RaiseGameDataImportError(catalog,
                                  IF outcome = "None" THEN "AttributeError" ELSE outcome)
    /\ UNCHANGED <<catalogStoreVars, nonCatalogVars>>

\* lines 228-239: one turn of the loop over category['recipes']
ImportRecipe ==
    /\ catalog.pc = "recipes"
    /\ catalog.todo # <<>>
    /\ LET id == Head(catalog.todo)
       IN IF id \in catalog.known_recipes
          THEN /\ catalog' = [catalog EXCEPT !.todo = Tail(@)]
               /\ UNCHANGED catalogStoreVars
          ELSE \E media, detail \in CallOutcomes :
                  LET outcome == SyncRecipeOutcome(media, detail)
                  IN IF outcome = "created"
                     THEN /\ StoreBecomes(SyncRecipeStore(TheStore, id))
                          /\ catalog' = [catalog EXCEPT
                                !.todo = Tail(@),
                                !.num_recipes_added =
                                    @ + SyncRecipeResults(id).num_recipes_added,
                                !.num_reagents_added =
                                    @ + SyncRecipeResults(id).num_reagents_added]
                     ELSE /\ catalog' = [RaiseGameDataImportError(catalog, outcome)
                                           EXCEPT !.not_found =
                                             IF outcome = "BattleNetAPINotFoundError"
                                             THEN @ \cup {id} ELSE @]
                          /\ UNCHANGED catalogStoreVars
    /\ UNCHANGED nonCatalogVars

\* the recipes of the tier are done: back to line 221
EndSkillTier ==
    /\ catalog.pc = "recipes"
    /\ catalog.todo = <<>>
    /\ catalog' = [catalog EXCEPT !.pc = "tier"]
    /\ UNCHANGED <<catalogStoreVars, nonCatalogVars>>

CatalogIdle ==
    /\ recipes = {}
    /\ reagents = {}
    /\ recipe_reagents = {}
    /\ catalog = IdleCatalog

CatalogInit ==
    /\ \E imported \in SUBSET RecipeIds :
          /\ recipes = CatalogStore(imported).recipes
          /\ reagents = CatalogStore(imported).reagents
          /\ recipe_reagents = CatalogStore(imported).recipe_reagents
    /\ catalog = IdleCatalog

-----------------------------------------------------------------------------
(* guild/jobs.py: GuildDataImporter.sync_character_recipes *)

\* Character.objects.all(): the characters whose recipes are synced
Crafters == {1, 2}

\* The known recipes a professions response reports, over its professions
\* and tiers, in the order of the ids
ProfessionResponses == {SeqOfSet(S) : S \in SUBSET RecipeIds}

\* the Character rows sync_character_recipes goes through
CraftingCharacters == {Character(id, ThisGuild, 1) : id \in Crafters}

NoExtraResults == [num_recipes_added |-> 0, num_reagents_added |-> 0]

\* sync_character_recipes is not running.  answers lists what the upstream
\* answered to the professions calls of the run; in a run that follows
\* another (rerun), previous is the answers of the run before.
IdleCrafts ==
    [pc |-> "idle", characters |-> <<>>, character |-> 0, response_ok |-> FALSE,
     known_recipes |-> {}, reported |-> <<>>, todo |-> <<>>,
     discovered_recipes |-> {}, has_changes |-> FALSE, added |-> {}, removed |-> {},
     num_added |-> 0, num_removed |-> 0, characters_not_found |-> <<>>,
     extra_results |-> NoExtraResults, outcome |-> "pending",
     answers |-> <<>>, rerun |-> FALSE, previous |-> <<>>]

\* what get_character_professions answered for a character: its recipes, or
\* 404
Answer(character, response) ==
    [character |-> character, found |-> TRUE, response |-> response]
NoSuchCharacter(character) ==
    [character |-> character, found |-> FALSE, response |-> <<>>]

\* an exception leaves sync_character_recipes: nothing there catches it
RaiseFromCrafts(c, exception) == [c EXCEPT !.pc = "done", !.outcome = exception]

recipes_to_remove_none(known, discovered) == {}

\* every known recipe is taken off and put back
recipes_to_remove_all(known, discovered) == known

\* the known recipes that are reported are taken off
recipes_to_remove_reported(known, discovered) == known \cap discovered

\* line 221
recipes_to_remove(known, discovered) == known \ discovered

\* lines 169-174
StartRecipeSync ==
    /\ crafts.pc = "idle"
    /\ crafts.outcome = "pending"
    /\ crafts' = [IdleCrafts EXCEPT
                     !.pc = "character",
                     !.characters = SeqOfSet(CharacterRowIds(characters))]
    /\ UNCHANGED <<known_recipes, characters, catalogStoreVars, nonCraftVars>>

\* lines 175-188: the professions of the next character are asked for; after
\* the last character, lines 233-236
NextCharacter ==
    /\ crafts.pc = "character"
    /\ IF crafts.characters = <<>>
       THEN crafts' = [crafts EXCEPT !.pc = "done", !.outcome = "returned"]
       ELSE LET character == Head(crafts.characters)
                next == [crafts EXCEPT
                            !.characters = Tail(@),
                            !.character = character,
                            !.response_ok = FALSE,
                            !.known_recipes = {},
                            !.reported = <<>>,
                            !.todo = <<>>,
                            !.discovered_recipes = {},
                            !.has_changes = FALSE,
                            !.added = {},
                            !.removed = {}]
            IN \E outcome \in CallOutcomes :
                  CASE outcome = "json" ->
                          \E response \in ProfessionResponses :
                             crafts' = [next EXCEPT
                                           !.pc = "additions",
                                           !.response_ok = TRUE,
                                           !.known_recipes = known_recipes[character],
                                           !.reported = response,
                                           !.todo = response,
                                           !.answers = Append(@, Answer(character, response))]
                    [] outcome = "BattleNetAPINotFoundError" ->
                          crafts' = [next EXCEPT
                                        !.characters_not_found = Append(@, character),
                                        !.answers = Append(@, NoSuchCharacter(character))]
                    [] outcome = "BattleNetAPIError" ->
                          crafts' = RaiseFromCrafts(next, outcome)
                    [] outcome = "None" ->
                          \* line 192: None has no get()
                          crafts' = RaiseFromCrafts(
                                       [next EXCEPT !.known_recipes =
                                                       known_recipes[character]],
                                       "AttributeError")
    /\ UNCHANGED <<known_recipes, characters, catalogStoreVars, nonCraftVars>>

\* character.known_recipes.add(recipe) is counted and logged
AddKnownRecipe(c, id) ==
    [c EXCEPT !.todo = Tail(@),
              !.discovered_recipes = @ \cup {id},
              !.has_changes = TRUE,
              !.added = @ \cup {id},
              !.num_added = @ + 1]

\* lines 194-218: one reported recipe
AddRecipe ==
    /\ crafts.pc = "additions"
    /\ crafts.todo # <<>>
    /\ LET id == Head(crafts.todo)
       IN IF id \in crafts.known_recipes
          THEN /\ crafts' = [crafts EXCEPT !.todo = Tail(@),
                                           !.discovered_recipes = @ \cup {id}]
               /\ UNCHANGED <<known_recipes, catalogStoreVars>>
          ELSE IF id \in recipes
          THEN /\ crafts' = AddKnownRecipe(crafts, id)
               /\ known_recipes' = [known_recipes EXCEPT ![crafts.character] = @ \cup {id}]
               /\ UNCHANGED catalogStoreVars
          ELSE \* lines 206-214: Recipe.DoesNotExist, the recipe is fetched
               \E media, detail \in CallOutcomes :
                  LET outcome == SyncRecipeOutcome(media, detail)
                  IN IF outcome = "created"
                     THEN /\ StoreBecomes(SyncRecipeStore(TheStore, id))
                          /\ crafts' = [AddKnownRecipe(crafts, id) EXCEPT
                                !.extra_results =
                                    [num_recipes_added |->
                                        @.num_recipes_added
                                        + SyncRecipeResults(id).num_recipes_added,
                                     num_reagents_added |->
                                        @.num_reagents_added
                                        + SyncRecipeResults(id).num_reagents_added]]
                          /\ known_recipes' =
                                [known_recipes EXCEPT ![crafts.character] = @ \cup {id}]
                     ELSE /\ crafts' = RaiseFromCrafts(
                                          [crafts EXCEPT
                                              !.discovered_recipes = @ \cup {id},
                                              !.has_changes = TRUE],
                                          outcome)
                          /\ UNCHANGED <<known_recipes, catalogStoreVars>>
    /\ UNCHANGED <<characters, nonCraftVars>>

\* lines 220-231: the removals, and the save
RemoveRecipes ==
    /\ crafts.pc = "additions"
    /\ crafts.todo = <<>>
    /\ LET to_remove == recipes_to_remove(crafts.known_recipes, crafts.discovered_recipes)
       IN /\ known_recipes' = [known_recipes EXCEPT ![crafts.character] = @ \ to_remove]
          /\ crafts' = [crafts EXCEPT
                           !.pc = "character",
                           !.removed = to_remove,
                           !.has_changes = @ \/ to_remove # {},
                           !.num_removed = @ + Cardinality(to_remove)]
    /\ UNCHANGED <<characters, catalogStoreVars, nonCraftVars>>

\* the run has returned; sync_character_recipes is called again
RestartRecipeSync ==
    /\ crafts.pc = "done"
    /\ crafts.outcome = "returned"
    /\ ~crafts.rerun
    /\ crafts' = [IdleCrafts EXCEPT
                     !.pc = "character",
                     !.characters = SeqOfSet(CharacterRowIds(characters)),
                     !.rerun = TRUE,
                     !.previous = crafts.answers]
    /\ UNCHANGED <<known_recipes, characters, catalogStoreVars, nonCraftVars>>

CraftsIdle ==
    /\ known_recipes = [character \in CharacterIds |-> {}]
    /\ crafts = IdleCrafts

\* the characters of the run, each knowing recipes of the catalog
CraftsInit ==
    /\ characters = CraftingCharacters
    /\ roster = IdleRoster
    /\ syncs = 0
    /\ catalog = IdleCatalog
    /\ crafts = IdleCrafts
    /\ \E imported \in SUBSET RecipeIds :
          /\ recipes = CatalogStore(imported).recipes
          /\ reagents = CatalogStore(imported).reagents
          /\ recipe_reagents = CatalogStore(imported).recipe_reagents
          /\ \E first, second \in SUBSET imported :
                known_recipes = [character \in CharacterIds |->
                                    IF character = 1 THEN first
                                    ELSE IF character = 2 THEN second ELSE {}]

-----------------------------------------------------------------------------
(* gamedata/jobs.py: GameDataImporter.import_professions *)

ProfessionIds == 1..MaxProfessions

\* the names the upstream serves for a profession, before and after a rename
\* (the name stands for the name and the icon, the fields other than the id)
ProfessionNames == {"name", "renamed"}

\* a Profession row, and an entry of the index
Profession(id, name) == [id |-> id, name |-> name]

\* the ids of a set of Profession rows (id is the primary key)
ProfessionRowIds(rows) == {row.id : row \in rows}

\* get_professions(): the professions of the index, by ascending id
RECURSIVE ProfessionIndexesOver(_)
ProfessionIndexesOver(n) ==
    IF n = 0 THEN {<<>>}
    ELSE LET shorter == ProfessionIndexesOver(n - 1)
         IN shorter \cup {Append(r, Profession(n, name)) :
                             r \in shorter, name \in ProfessionNames}
ProfessionIndexes == ProfessionIndexesOver(MaxProfessions)

\* no run of import_professions has returned yet
NoIndex == [returned |-> FALSE, response |-> <<>>]

\* import_professions is not running; started counts the runs so far and
\* previous is the index the run before got, when it returned
IdleProfessionImport ==
    [pc |-> "idle", started |-> 0, previous |-> NoIndex, response |-> <<>>,
     todo |-> <<>>, profession_bound |-> FALSE, num_success |-> 0,
     outcome |-> "pending", cause |-> "none"]

\* lines 114-116: the handler of `except Exception`.  Line 115 formats
\* profession['id'] into the log message before line 116 raises
\* GameDataImportError; profession is the loop variable of line 104, and when
\* no turn of the loop has bound it the f-string raises UnboundLocalError,
\* which leaves import_professions in place of GameDataImportError.
HandleProfessionFailure(p, cause) ==
    [p EXCEPT !.pc = "done",
              !.outcome = IF p.profession_bound THEN "GameDataImportError"
                          ELSE "UnboundLocalError",
              !.cause = cause]

\* lines 100-102: the index is asked for; a None response fails at
\* response['professions'] (line 104) with TypeError
StartProfessionImport ==
    /\ profession_import.pc = "idle"
    /\ profession_import.started < MaxImports
    /\ LET p == [profession_import EXCEPT !.started = @ + 1]
       IN \E outcome \in CallOutcomes :
             CASE outcome = "json" ->
                     \E response \in ProfessionIndexes :
                        profession_import' = [p EXCEPT !.pc = "professions",
                                                       !.response = response,
                                                       !.todo = response]
               [] outcome = "None" ->
                     profession_import' = HandleProfessionFailure(p, "TypeError")
               [] OTHER ->
                     profession_import' = HandleProfessionFailure(p, outcome)
    /\ UNCHANGED <<professions, nonProfessionVars>>

\* the row is inserted without a lookup
ProfessionInsertRaises_create(rows, profession) ==
    profession.id \in ProfessionRowIds(rows)

\* lines 107-111: Profession.objects.get_or_create(id=..., name=..., icon=...)
\* finds the row that has all these values, and else inserts one; the insert
\* of an id that has a row raises IntegrityError
ProfessionInsertRaises(rows, profession) ==
    /\ profession \notin rows
    /\ profession.id \in ProfessionRowIds(rows)

\* lines 104-112: one turn of the loop: the media of the profession is asked
\* for and the Profession row is got or created; a None response fails at
\* media_response['assets'] with TypeError
ImportProfession ==
    /\ profession_import.pc = "professions"
    /\ profession_import.todo # <<>>
    /\ LET profession == Head(profession_import.todo)
           p == [profession_import EXCEPT !.profession_bound = TRUE]
       IN \E media_response \in CallOutcomes :
             CASE media_response = "json" ->
                     IF ProfessionInsertRaises(professions, profession)
                     THEN /\ profession_import' =
                                HandleProfessionFailure(p, "IntegrityError")
                          /\ UNCHANGED professions
                     ELSE /\ professions' = professions \cup {profession}
                          /\ profession_import' = [p EXCEPT !.todo = Tail(@),
                                                            !.num_success = @ + 1]
               [] media_response = "None" ->
                     /\ profession_import' = HandleProfessionFailure(p, "TypeError")
                     /\ UNCHANGED professions
               [] OTHER ->
                     /\ profession_import' = HandleProfessionFailure(p, media_response)
                     /\ UNCHANGED professions
    /\ UNCHANGED nonProfessionVars

\* line 118: return {"num_success": num_success}
ReturnProfessions ==
    /\ profession_import.pc = "professions"
    /\ profession_import.todo = <<>>
    /\ profession_import' = [profession_import EXCEPT !.pc = "done",
                                                      !.outcome = "returned"]
    /\ UNCHANGED <<professions, nonProfessionVars>>

\* the run is over; the next one may start
EndProfessionImport ==
    /\ profession_import.pc = "done"
    /\ profession_import' =
          [IdleProfessionImport EXCEPT
              !.started = profession_import.started,
              !.previous = [returned |-> profession_import.outcome = "returned",
                            response |-> profession_import.response]]
    /\ UNCHANGED <<professions, nonProfessionVars>>

ProfessionsIdle ==
    /\ professions = {}
    /\ profession_import = IdleProfessionImport

-----------------------------------------------------------------------------
(* guild/views.py: RecipeCharacterSearchView, GET recipes/search-characters/ *)

\* the classes guild/serializers.py defines
SerializerClasses ==
    {"RecipeSerializer", "TeamSerializer", "CharacterSerializer", "GuildSerializer",
     "ApplicationSerializer"}

\* lines 4 and 94: the names guild/views.py imports from .serializers
ImportedSerializers ==
    {"GuildSerializer", "TeamSerializer", "CharacterSerializer", "ApplicationSerializer",
     "CharacterNameOnlySerializer"}

\* The import of guild.views, which guild/urls.py makes when the URL
\* configuration is loaded: a name that .serializers does not define raises
\* ImportError.
ImportViews ==
    IF ImportedSerializers \subseteq SerializerClasses THEN "loaded" ELSE "ImportError"

\* Character.name (not unique): the characters of odd id share a name
CharacterNameOf(id) == IF id % 2 = 1 THEN "Al" ELSE "Herb"

\* the names in the order of order_by('name')
NamesInOrder == <<"Al", "Herb">>

\* Recipe.name, as a sequence of letters
RecipeNameOf(id) ==
    CASE id = 1 -> <<"F", "l">>
      [] id = 2 -> <<"f", "L", "p">>
      [] id = 3 -> <<"P", "o">>
      [] OTHER -> <<"o">>

\* the case folding of icontains
LowerLetter(c) ==
    CASE c = "F" -> "f"
      [] c = "L" -> "l"
      [] c = "P" -> "p"
      [] c = "O" -> "o"
      [] OTHER -> c
Lower(name) == [i \in 1..Len(name) |-> LowerLetter(name[i])]

\* name__icontains=q
IContains(name, q) ==
    \E i \in 1..(Len(name) - Len(q) + 1) :
        SubSeq(Lower(name), i, i + Len(q) - 1) = Lower(q)

\* request.query_params.get('name', None)
NoParam == [given |-> FALSE, value |-> <<>>]
Param(value) == [given |-> TRUE, value |-> value]
RecipeQueries ==
    {NoParam} \cup
    {Param(q) : q \in {<<>>, <<"f">>, <<"F", "L">>, <<"l", "p">>, <<"p">>, <<"P", "O">>,
                       <<"x">>}}

\* lines 101-114: the names, once each and in order, of the characters with a
\* known recipe whose name contains the parameter; nothing for a missing or
\* empty parameter
get_queryset(recipe_name) ==
    IF ~recipe_name.given \/ recipe_name.value = <<>>
    THEN <<>>
    ELSE LET matching ==
                 {c \in CharacterIds :
                     \E r \in known_recipes[c] :
                         IContains(RecipeNameOf(r), recipe_name.value)}
             names == {CharacterNameOf(c) : c \in matching}
         IN [i \in 1..Len(SelectSeq(NamesInOrder, LAMBDA n : n \in names)) |->
                [name |-> SelectSeq(NamesInOrder, LAMBDA n : n \in names)[i]]]

IdleSearch == [pc |-> "idle", name |-> NoParam, outcome |-> "none", data |-> <<>>]

\* One GET of the endpoint.  Resolving the URL loads guild/urls.py, which
\* imports the view from guild/views.py; list (lines 116-125) serializes the
\* queryset.
SearchCharacters(recipe_name) ==
    /\ search.pc = "idle"
    /\ search' =
          IF ImportViews = "ImportError"
          THEN [pc |-> "done", name |-> recipe_name, outcome |-> "ImportError",
                data |-> <<>>]
          ELSE [pc |-> "done", name |-> recipe_name, outcome |-> "200",
                data |-> get_queryset(recipe_name)]
    /\ UNCHANGED <<clientVars, storeVars, importVars, fpVars, marketVars, rosterVars,
                   recipeVars, professionVars, guildVars, syncVars>>

SearchIdle == search = IdleSearch

\* every character is stored and knows some of the recipes of the catalog
SearchInit ==
    /\ characters = {Character(id, ThisGuild, 1) : id \in CharacterIds}
    /\ roster = IdleRoster
    /\ syncs = 0
    /\ catalog = IdleCatalog
    /\ crafts = IdleCrafts
    /\ recipes = RecipeIds
    /\ reagents = {}
    /\ recipe_reagents = {}
    /\ known_recipes \in [CharacterIds -> SUBSET RecipeIds]
    /\ search = IdleSearch

-----------------------------------------------------------------------------
(* guild/jobs.py: GuildDataImporter.sync_characters *)

\* What the summary of a character reports: one value stands for the icon,
\* the active specialization, the achievement points and the item levels.
\* 0 is the value of a row that was never synced.
NeverSynced == 0
Summaries == {1, 2}

\* one turn of the loop as the upstream answered it: how the summary call
\* and the media call ended (the media call "none" when it was not made)
Synced(character, summary, media, profile) ==
    [character |-> character, summary |-> summary, media |-> media,
     profile |-> profile]

IdleCharacterSync ==
    [pc |-> "idle", characters |-> {}, todo |-> <<>>, before |-> <<>>,
     answers |-> <<>>, num_success |-> 0, characters_not_found |-> <<>>,
     outcome |-> "pending", cause |-> "none"]

\* lines 109-114: characters = Character.objects.all(), read by len()
StartCharacterSync ==
    /\ charsync.pc = "idle"
    /\ charsync' = [IdleCharacterSync EXCEPT
                       !.pc = "characters",
                       !.characters = CharacterRowIds(characters),
                       !.todo = SeqOfSet(CharacterRowIds(characters)),
                       !.before = profiles]
    /\ UNCHANGED <<profiles, clientVars, storeVars, importVars, fpVars, marketVars,
                   rosterVars, recipeVars, professionVars, searchVars, guildVars>>

\* lines 142-145: except BattleNetAPINotFoundError: the character is listed
\* and passed over
ListNotFound(c, answer) ==
    [c EXCEPT !.todo = Tail(@),
              !.answers = Append(@, answer),
              !.characters_not_found = Append(@, answer.character)]

\* an exception that lines 142-145 do not catch leaves sync_characters, which
\* has no other handler
EscapeCharacterSync(c, answer, cause) ==
    [c EXCEPT !.pc = "done",
              !.answers = Append(@, answer),
              !.outcome = "raised",
              !.cause = cause]

\* the row is not written
SaveCharacter_skip(rows, character, profile) == rows

\* lines 148-155: the fields are set from the responses and character.save()
\* writes the row
SaveCharacter(rows, character, profile) == [rows EXCEPT ![character] = profile]

\* lines 136-157: one turn of the loop.  A None response (retries exhausted)
\* fails with TypeError where it is subscripted: the media response inside
\* the try (line 125), the summary response at line 148.  The
\* PlayableSpecialization of the summary is in the store (line 148 finds it).
SyncCharacter ==
    /\ charsync.pc = "characters"
    /\ charsync.todo # <<>>
    /\ LET character == Head(charsync.todo)
       IN \E summary \in CallOutcomes, profile \in Summaries :
             IF summary = "BattleNetAPINotFoundError"
             THEN /\ charsync' = ListNotFound(charsync,
                                     Synced(character, summary, "none", NeverSynced))
                  /\ UNCHANGED profiles
             ELSE IF summary = "BattleNetAPIError"
             THEN /\ charsync' = EscapeCharacterSync(charsync,
                                     Synced(character, summary, "none", NeverSynced),
                                     summary)
                  /\ UNCHANGED profiles
             ELSE \E media \in CallOutcomes :
                    LET answer == Synced(character, summary, media,
                                         IF summary = "json" THEN profile
                                         ELSE NeverSynced)
                    IN IF media = "BattleNetAPINotFoundError"
                       THEN /\ charsync' = ListNotFound(charsync, answer)
                            /\ UNCHANGED profiles
                       ELSE IF media = "BattleNetAPIError"
                       THEN /\ charsync' = EscapeCharacterSync(charsync, answer, media)
                            /\ UNCHANGED profiles
                       ELSE IF media = "None" \/ summary = "None"
                       THEN /\ charsync' = EscapeCharacterSync(charsync, answer,
                                                               "TypeError")
                            /\ UNCHANGED profiles
                       ELSE /\ profiles' = SaveCharacter(profiles, character, profile)
                            /\ charsync' = [charsync EXCEPT
                                               !.todo = Tail(@),
                                               !.answers = Append(@, answer),
                                               !.num_success = @ + 1]
    /\ UNCHANGED <<clientVars, storeVars, importVars, fpVars, marketVars,
                   rosterVars, recipeVars, professionVars, searchVars, guildVars>>

\* line 159: return {"num_success": ..., 'characters_not_found': ...}
ReturnCharacterSync ==
    /\ charsync.pc = "characters"
    /\ charsync.todo = <<>>
    /\ charsync' = [charsync EXCEPT !.pc = "done", !.outcome = "returned"]
    /\ UNCHANGED <<profiles, clientVars, storeVars, importVars, fpVars, marketVars,
                   rosterVars, recipeVars, professionVars, searchVars, guildVars>>

SyncIdle ==
    /\ profiles = [character \in CharacterIds |-> NeverSynced]
    /\ charsync = IdleCharacterSync

\* some characters of the guild are stored, synced before or not
SyncInit ==
    /\ \E ids \in SUBSET CharacterIds :
          characters = {Character(id, ThisGuild, 1) : id \in ids}
    /\ roster = IdleRoster
    /\ syncs = 0
    /\ profiles \in [CharacterIds -> {NeverSynced, 1}]
    /\ \A id \in CharacterIds :
          id \notin CharacterRowIds(characters) => profiles[id] = NeverSynced
    /\ charsync = IdleCharacterSync

-----------------------------------------------------------------------------
(* Specifications *)

InitClient == ClientInit /\ ImportInit /\ FpIdle /\ MarketIdle /\ RosterIdle /\ CatalogIdle /\ CraftsIdle /\ ProfessionsIdle /\ SyncIdle /\ GuildsIdle /\ SearchIdle
NextClient == BeginRequest \/ Attempt \/ Backoff \/ Return \/ AdvanceClock
SpecClient == InitClient /\ [][NextClient]_vars

InitImport == ClientInit /\ ImportInit /\ FpIdle /\ MarketIdle /\ RosterIdle /\ CatalogIdle /\ CraftsIdle /\ ProfessionsIdle /\ SyncIdle /\ GuildsIdle /\ SearchIdle
NextImport == StartRun(1) \/ ProcessItem(1) \/ FinishRun(1)
SpecImport == InitImport /\ [][NextImport]_vars

NextOverlap == \E w \in Workers : StartRun(w) \/ ProcessItem(w) \/ FinishRun(w)
SpecOverlap == InitImport /\ [][NextOverlap]_vars

InitFingerprint == ClientInit /\ ImportInit /\ FpInit /\ MarketIdle /\ RosterIdle /\ CatalogIdle /\ CraftsIdle /\ ProfessionsIdle /\ SyncIdle /\ GuildsIdle /\ SearchIdle
NextFingerprint == ReorderKeys \/ ComputeOrigin
SpecFingerprint == InitFingerprint /\ [][NextFingerprint]_vars

InitMarket == ClientInit /\ ImportInit /\ FpIdle /\ MarketInit /\ RosterIdle /\ CatalogIdle /\ CraftsIdle /\ ProfessionsIdle /\ SyncIdle /\ GuildsIdle /\ SearchIdle
NextMarket == ResolvePrice \/ AnalyzeMarket
SpecMarket == InitMarket /\ [][NextMarket]_vars

InitRoster == ClientInit /\ ImportInit /\ FpIdle /\ MarketIdle /\ RosterInit /\ CatalogIdle /\ CraftsIdle /\ ProfessionsIdle /\ SyncIdle /\ GuildsInit /\ SearchIdle
NextRoster == StartSync \/ AddOrSkipMember \/ RemoveMembers \/ EndSync
SpecRoster == InitRoster /\ [][NextRoster]_vars

InitCatalog ==
    ClientInit /\ ImportInit /\ FpIdle /\ MarketIdle /\ RosterIdle /\ CatalogInit /\ CraftsIdle
    /\ ProfessionsIdle /\ SyncIdle /\ GuildsIdle /\ SearchIdle
NextCatalog == StartCatalogImport \/ NextSkillTier \/ ImportRecipe \/ EndSkillTier
SpecCatalog == InitCatalog /\ [][NextCatalog]_vars

InitRecipes == ClientInit /\ ImportInit /\ FpIdle /\ MarketIdle /\ CraftsInit /\ ProfessionsIdle /\ SyncIdle /\ GuildsIdle /\ SearchIdle
NextRecipes == StartRecipeSync \/ NextCharacter \/ AddRecipe \/ RemoveRecipes
SpecRecipes == InitRecipes /\ [][NextRecipes]_vars

NextResync == NextRecipes \/ RestartRecipeSync
SpecResync == InitRecipes /\ [][NextResync]_vars

InitProfessions ==
    ClientInit /\ ImportInit /\ FpIdle /\ MarketIdle /\ RosterIdle /\ CatalogIdle /\ CraftsIdle
    /\ ProfessionsIdle /\ SyncIdle /\ GuildsIdle /\ SearchIdle
NextProfessions ==
    StartProfessionImport \/ ImportProfession \/ ReturnProfessions \/ EndProfessionImport
SpecProfessions == InitProfessions /\ [][NextProfessions]_vars

\* one of the two reconciliation jobs, chosen by the first step: the roster
\* job is run on the stores of RosterInit (the recipe catalog is empty), the
\* recipes job on the stores of CraftsInit
InitReconcile == InitRoster \/ InitRecipes
NextReconcile ==
    \/ crafts = IdleCrafts /\ recipes = {} /\ NextRoster
    \/ roster = IdleRoster /\ syncs = 0 /\ characters = CraftingCharacters /\ NextRecipes
SpecReconcile == InitReconcile /\ [][NextReconcile]_vars

InitSync ==
    ClientInit /\ ImportInit /\ FpIdle /\ MarketIdle /\ SyncInit /\ CatalogIdle /\ CraftsIdle
    /\ ProfessionsIdle /\ GuildsIdle /\ SearchIdle
NextSync == StartCharacterSync \/ SyncCharacter \/ ReturnCharacterSync
SpecSync == InitSync /\ [][NextSync]_vars

InitSearch == ClientInit /\ ImportInit /\ FpIdle /\ MarketIdle /\ SearchInit /\ ProfessionsIdle /\ SyncIdle /\ GuildsIdle
NextSearch == \E recipe_name \in RecipeQueries : SearchCharacters(recipe_name)
SpecSearch == InitSearch /\ [][NextSearch]_vars

-----------------------------------------------------------------------------
(* Claims about the API client, under SpecClient *)

Gets == SelectSeq(events, LAMBDA e : e.op = "GET")
Sleeps == SelectSeq(events, LAMBDA e : e.op = "SLEEP")
Posts == SelectSeq(events, LAMBDA e : e.op = "POST")

\* every GET of the call in progress was answered with a transient status
AllTransient ==
    /\ Gets # <<>>
    /\ \A i \in 1..Len(Gets) : Gets[i].status \in RETRY_STATUS_CODES

\* the status is an error that is neither transient nor not-found, or the GET
\* failed at the network level
Unclassified(s) ==
    \/ s = NetworkFailure
    \/ /\ ~(s >= 200 /\ s < 300)
       /\ s \notin RETRY_STATUS_CODES
       /\ s \notin NOT_FOUND_STATUS_CODES

\* C1 (as claimed): a call whose GETs were all answered with a transient
\* status ends by raising BattleNetAPIError, never by returning a value.
C1_ExhaustionRaisesFatal ==
    (pc = "done" /\ AllTransient) => result = "BattleNetAPIError"

\* C2: a call issues at most MAX_RETRIES GETs; after the MAX_RETRIES-th GET
\* the call has ended (no further GET, no sleep pending); a finished call
\* whose GETs were all transient issued exactly MAX_RETRIES GETs; a call in
\* progress always has an attempt left.
C2_BoundedRetries ==
    /\ Len(Gets) <= MAX_RETRIES
    /\ (Len(Gets) = MAX_RETRIES => pc = "done")
    /\ ((pc = "done" /\ AllTransient) => Len(Gets) = MAX_RETRIES)
    /\ (pc \in {"request", "backoff"} =>
            attempt < MAX_RETRIES /\ Len(Gets) <= attempt + 1)

C2_Witness ==
    /\ pc = "done"
    /\ AllTransient
    /\ Len(Gets) = MAX_RETRIES

\* C3: the i-th sleep of a call (i from 0) follows the i-th transient GET,
\* has pre-jitter wait BASE_BACKOFF_SECONDS * 2^i and a jitter between 0 and
\* 10% of it; the waits are strictly increasing; a sleep is never the last
\* step of a finished call; a finished all-transient call slept exactly
\* MAX_RETRIES - 1 times.
C3_BackoffProgression ==
    /\ \A p \in 1..Len(events) :
         events[p].op = "SLEEP" =>
            LET i == Len(SelectSeq(SubSeq(events, 1, p - 1),
                                   LAMBDA e : e.op = "SLEEP")) IN
            /\ p > 1
            /\ events[p - 1].op = "GET"
            /\ events[p - 1].status \in RETRY_STATUS_CODES
            /\ Len(SelectSeq(SubSeq(events, 1, p - 1),
                             LAMBDA e : e.op = "GET")) = i + 1
            /\ events[p].wait = BASE_BACKOFF_SECONDS * (2 ^ i)
            /\ events[p].jitter >= 0
            /\ events[p].jitter * 10 <= events[p].wait * TicksPerSecond
            /\ (p < Len(events) => events[p + 1].op = "GET")
            /\ (p = Len(events) => pc = "request")
    /\ \A i \in 1..Len(Sleeps) - 1 : Sleeps[i].wait < Sleeps[i + 1].wait
    /\ ((pc = "done" /\ AllTransient) => Len(Sleeps) = MAX_RETRIES - 1)

C3_Witness ==
    /\ pc = "done"
    /\ AllTransient
    /\ Len(Sleeps) = MAX_RETRIES - 1
    /\ Sleeps[2].jitter > 0

\* C4: a GET answered 404 is the last step of its call, which ends by
\* raising BattleNetAPINotFoundError, also after earlier transient answers.
C4_NotFoundImmediate ==
    \A p \in 1..Len(events) :
        (events[p].op = "GET" /\ events[p].status \in NOT_FOUND_STATUS_CODES) =>
            /\ p = Len(events)
            /\ pc = "done"
            /\ result = "BattleNetAPINotFoundError"

C4_Witness ==
    /\ pc = "done"
    /\ result = "BattleNetAPINotFoundError"
    /\ Len(Gets) = MAX_RETRIES
    /\ Gets[1].status = 429
    /\ Gets[MAX_RETRIES].status = 404

PostStep == pc = "idle" /\ pc' # "idle" /\ events' # <<>> /\ events'[1].op = "POST"

\* C6: a token POST is made only when no token is cached or the clock has
\* reached token_expiry; a successful one caches the token received and sets
\* token_expiry to the time of the fetch + expires_in - 180 s, and nothing
\* else changes them; every GET carries the cached token, which is not empty.
C6_RefreshOnlyWhenExpired ==
    /\ [][PostStep => (~Truthy(access_token) \/ now >= token_expiry)]_vars
    /\ [][(PostStep /\ events'[1].status = 200) =>
             /\ access_token' = events'[1].token
             /\ token_expiry' = now' + (events'[1].expires_in - 180) * TicksPerSecond]_vars
    /\ [][~PostStep => UNCHANGED <<access_token, token_expiry>>]_vars
    /\ [](\A i \in 1..Len(Gets) :
             Gets[i].token = access_token /\ Gets[i].token \notin {None, ""})

\* a call that reused the token of an earlier call for its GETs
C6_Witness ==
    /\ calls >= 1
    /\ Posts = <<>>
    /\ Len(Gets) >= 2
    /\ now < token_expiry

\* C7: a call whose token POST failed has ended by raising BattleNetAPIError
\* without any GET, and the failed POST left the cached token and its expiry
\* as they were.
C7_TokenFailureIsFatal ==
    /\ []((Posts # <<>> /\ Posts[1].status # 200) =>
             /\ pc = "done"
             /\ result = "BattleNetAPIError"
             /\ Gets = <<>>
             /\ Len(events) = 1)
    /\ [][(PostStep /\ events'[1].status # 200) =>
             UNCHANGED <<access_token, token_expiry>>]_vars

\* the refresh of a cached, expired token failed
C7_Witness ==
    /\ pc = "done"
    /\ Posts # <<>>
    /\ Posts[1].status = 401
    /\ access_token = "tokA"
    /\ now >= token_expiry
    /\ result = "BattleNetAPIError"

-----------------------------------------------------------------------------
(* Claims about import_commodities and the origin *)

\* worker 1 has returned from a run on the snapshot of the run before it,
\* which returned too
SecondRun ==
    /\ run[1].state = "returned"
    /\ prev.state = "returned"
    /\ prev.origin = run[1].origin

\* the items that have a Commodity row of the snapshot once the run before
\* has returned: each item of the snapshot, but those passed over as not found
Recorded == prev.item_ids \ prev.not_found

\* C8 (as claimed): the second run on a snapshot, with the upstream answering
\* as in the first run, creates no Commodity row, reports num_added = 0 and
\* counts every item of the snapshot as skipped.
C8_SecondRunSkipsAll ==
    (SecondRun /\ run[1].not_found = prev.not_found) =>
        /\ run[1].created = {}
        /\ run[1].num_added = 0
        /\ run[1].num_skipped = Cardinality(prev.item_ids)

\* C8 (amended): the second run creates no row for an item that has one, and
\* counts exactly those items as skipped; an item the first run passed over
\* as not found is fetched again and is not counted as skipped.  When the
\* item fetches are answered as in the first run, the second run creates no
\* row and reports num_added = 0, and a run after it reports the same counts.
C8_SecondRunSkipsRecorded ==
    SecondRun =>
        /\ run[1].created \cap Recorded = {}
        /\ run[1].created \cup run[1].not_found = prev.not_found
        /\ run[1].num_skipped = Cardinality(Recorded)
        /\ (run[1].not_found = prev.not_found =>
                /\ run[1].created = {}
                /\ run[1].num_added = 0
                /\ (prev.created = {} =>
                        /\ run[1].num_added = prev.num_added
                        /\ run[1].num_skipped = prev.num_skipped))

\* a second run after a first run that created a row and met a junk item
C8_Witness ==
    /\ SecondRun
    /\ prev.created # {}
    /\ prev.not_found # {}
    /\ run[1].not_found = prev.not_found
    /\ run[1].num_skipped = 1
    /\ run[1].num_added = 0

\* C9: no two Commodity rows have the same item and the same origin.
C9_NoDuplicateCommodity ==
    \A i, j \in 1..Len(commodities) :
        (commodities[i].item = commodities[j].item
         /\ commodities[i].origin = commodities[j].origin) => i = j

\* the store has refused a duplicate that passed the importer's own check
C9_Witness ==
    /\ \E w \in Workers : run[w].state = "raised" /\ run[w].error = "IntegrityError"
    /\ Len(commodities) >= 2
    /\ \E i, j \in 1..Len(commodities) :
         commodities[i].origin # commodities[j].origin

\* C10: every origin computed for a payload equals the origin computed first,
\* whatever the order of the mapping keys it is served in.
C10_FingerprintStable ==
    fp_origin # NoFingerprint => fp_origin.origin = fp_first.origin

\* the origin was computed again after the keys were reordered
C10_Witness ==
    /\ fp_origin # NoFingerprint
    /\ fp_origin.at >= fp_first.at + 2
    /\ SortByKey(fp_payload.payload.v) # fp_payload.payload.v

-----------------------------------------------------------------------------
(* Claims about lib/market.py, under SpecMarket *)

\* the price list was handed to calculate_market_price and a price came back
Resolved == mk_price.resolved
\* p is a least member of the price list
IsLeast(p, prices) == p \in Range(prices) /\ \A q \in Range(prices) : p <= q

\* C11: calculate_market_price returns 0 for the empty list, p for the list
\* [p] and the minimum for every list of fewer than 3 prices; for every list
\* it returns a price, one of the list when the list is not empty.
C11_DegenerateCases ==
    Resolved =>
        /\ mk_prices = <<>> => mk_price.value = 0
        /\ Len(mk_prices) = 1 => mk_price.value = mk_prices[1]
        /\ Len(mk_prices) \in 1..2 => IsLeast(mk_price.value, mk_prices)
        /\ mk_prices # <<>> => mk_price.value \in Range(mk_prices)

\* a list of two prices, the lower one last, was resolved
C11_Witness ==
    /\ Resolved
    /\ Len(mk_prices) = 2
    /\ mk_prices[2] < mk_prices[1]

\* the mean price of the positions A is below that of the positions B
ClusterMeanLess(A, B) ==
    SumAt(mk_prices, A) * Cardinality(B) < SumAt(mk_prices, B) * Cardinality(A)

\* C12: for every list of at least 3 prices in which clustering yields a
\* cluster, calculate_market_price returns the minimum price among the members
\* of the cluster whose mean price is lowest.
C12_MinOfLowestMeanCluster ==
    (Resolved /\ Len(mk_prices) >= 3 /\ mk_price.labels # {}) =>
        \E A \in mk_price.labels :
            /\ \A B \in mk_price.labels \ {A} : ClusterMeanLess(A, B)
            /\ mk_price.value \in {mk_prices[i] : i \in A}
            /\ \A i \in A : mk_price.value <= mk_prices[i]

\* a list with two clusters, the dearer one listed first, was resolved
C12_Witness ==
    /\ Resolved
    /\ Cardinality(mk_price.labels) >= 2
    /\ \E A, B \in mk_price.labels : 1 \in A /\ ClusterMeanLess(B, A)

\* 20 times the neighbourhood radius max(5% of (max price - min price), 1000)
\* of the price list
Radius20 ==
    LET price_range == MaxOf(Range(mk_prices)) - MinOf(Range(mk_prices))
    IN IF price_range >= 20 * 1000 THEN price_range ELSE 20 * 1000
\* the prices at positions i and j lie within the radius of each other
Close(i, j) == 20 * Abs(mk_prices[i] - mk_prices[j]) <= Radius20
\* no other price lies within the radius of the price at position i
Isolated(i) == \A j \in 1..Len(mk_prices) \ {i} : ~Close(i, j)

\* C13: for every list of at least 3 prices in which every price is noise
\* (no price within the radius of another, clustering yields no cluster),
\* calculate_market_price returns the global minimum of the list.
C13_NoiseFallback ==
    (/\ Resolved
     /\ Len(mk_prices) >= 3
     /\ (\A i \in 1..Len(mk_prices) : Isolated(i)) \/ mk_price.labels = {}) =>
        IsLeast(mk_price.value, mk_prices)

\* a list of three prices or more, all of them noise and the lowest not the
\* first, was resolved
C13_Witness ==
    /\ Resolved
    /\ Len(mk_prices) >= 3
    /\ \A i \in 1..Len(mk_prices) : Isolated(i)
    /\ mk_price.labels = {}
    /\ mk_prices[1] > mk_price.value

\* the positions that clustering put in some cluster
Clustered == UNION mk_price.labels
\* the clustering case: a list of at least 3 prices was resolved
ClusteringCase == Resolved /\ Len(mk_prices) >= 3
\* the prices other than the one at position i that lie within the radius of it
OtherNeighbours(i) == {j \in 1..Len(mk_prices) \ {i} : Close(i, j)}

\* the radius is max(5% of the price range, 1000)
RadiusRule ==
    \A i, j \in 1..Len(mk_prices) : j \in Neighbours(mk_prices, i) <=> Close(i, j)
\* isolated prices are noise: in no cluster, and never the resolved price
\* while a cluster exists
NoiseRule ==
    /\ \A i \in 1..Len(mk_prices) : Isolated(i) => i \notin Clustered
    /\ Clustered # {} =>
          /\ mk_price.value \in {mk_prices[i] : i \in Clustered}
          /\ \A i \in 1..Len(mk_prices) : Isolated(i) => mk_price.value # mk_prices[i]

\* C14, as stated: in the clustering case the radius is max(5% of the price
\* range, 1000), a price belongs to a cluster only if at least 2 other prices
\* lie within that radius of it, and isolated prices are noise, excluded from
\* every cluster and never the resolved price while a cluster exists.
C14_TwoNeighboursNeeded ==
    ClusteringCase =>
        /\ RadiusRule
        /\ \A i \in Clustered : Cardinality(OtherNeighbours(i)) >= 2
        /\ NoiseRule

\* C14, amended: as above, but a price belongs to a cluster only if at least
\* 2 prices of the list, itself counted, lie within the radius of it: one
\* other price is enough.
C14_ClusterFormation ==
    ClusteringCase =>
        /\ RadiusRule
        /\ \A i \in Clustered : Cardinality(OtherNeighbours(i) \cup {i}) >= 2
        /\ NoiseRule

\* a list was resolved in which a price with exactly one other price within
\* the radius, farther away than the floor of 1000, is in a cluster, and in
\* which an isolated price is lower than the resolved price
C14_Witness ==
    /\ ClusteringCase
    /\ \E i \in Clustered :
          /\ Cardinality(OtherNeighbours(i)) = 1
          /\ \A j \in OtherNeighbours(i) : Abs(mk_prices[i] - mk_prices[j]) > 1000
    /\ \E i \in 1..Len(mk_prices) : Isolated(i) /\ mk_prices[i] < mk_price.value

\* the list is a low group of at least 2 prices that lie within the radius of
\* each other, plus the price at position h, which is higher than all of them
\* and farther than the radius from all of them
LowGroupAndOutlier(h) ==
    LET group == (1..Len(mk_prices)) \ {h}
    IN /\ h \in 1..Len(mk_prices)
       /\ Cardinality(group) >= 2
       /\ \A i, j \in group : Close(i, j)
       /\ \A i \in group : mk_prices[h] > mk_prices[i] /\ ~Close(h, i)

\* C15: for a list made of a group of at least 2 prices within the radius of
\* each other plus one higher price farther than the radius from all of
\* them, calculate_market_price returns the minimum of the low group and never
\* the outlier.
C15_OutlierIgnored ==
    \A h \in 1..Len(mk_prices) :
        (Resolved /\ LowGroupAndOutlier(h)) =>
            /\ mk_price.value \in {mk_prices[i] : i \in (1..Len(mk_prices)) \ {h}}
            /\ \A i \in (1..Len(mk_prices)) \ {h} : mk_price.value <= mk_prices[i]
            /\ mk_price.value # mk_prices[h]

\* a list of three unequal low prices and an outlier, the outlier first and
\* the lowest price last, was resolved
C15_Witness ==
    /\ Resolved
    /\ Len(mk_prices) = 4
    /\ LowGroupAndOutlier(1)
    /\ \A i \in 2..3 : mk_prices[4] < mk_prices[i]


\* the positions of the prices that are not noise: some other price lies
\* within the radius
NotNoise == {i \in 1..Len(mk_prices) : ~Isolated(i)}

\* C35: clusters of prices do not interleave, and so for every list of at
\* least 3 prices with at least one cluster calculate_market_price returns
\* the smallest price that is not noise, the minimum over all clustered
\* prices.
C35_LowestClusteredPrice ==
    (Resolved /\ Len(mk_prices) >= 3 /\ mk_price.labels # {}) =>
        /\ \A A, B \in mk_price.labels :
              A # B => \/ \A i \in A, j \in B : mk_prices[i] < mk_prices[j]
                       \/ \A i \in A, j \in B : mk_prices[i] > mk_prices[j]
        /\ Clustered = NotNoise
        /\ mk_price.value \in {mk_prices[i] : i \in NotNoise}
        /\ \A i \in NotNoise : mk_price.value <= mk_prices[i]

\* a list was resolved that has a cluster and a noise price below every
\* clustered price, the lowest clustered price not listed first
C35_Witness ==
    /\ Resolved
    /\ Len(mk_prices) >= 3
    /\ mk_price.labels # {}
    /\ \E n \in 1..Len(mk_prices) :
          Isolated(n) /\ \A i \in NotNoise : mk_prices[n] < mk_prices[i]
    /\ mk_prices[1] # mk_price.value
\* analyze_market_data was applied to the listings and returned
Analyzed == mk_analysis.done
\* the positions of the listings that carry item id item_id
PositionsOf(item_id) ==
    {i \in 1..Len(mk_data) :
        ListingItemId(mk_data[i]).t = "int" /\ ListingItemId(mk_data[i]).v = item_id}
\* the item ids that appear in the listings
AppearingIds ==
    {ListingItemId(mk_data[i]).v :
        i \in {k \in 1..Len(mk_data) : ListingItemId(mk_data[k]).t = "int"}}
\* the sum of the quantities of the listings at the positions S
RECURSIVE QuantityAt(_)
QuantityAt(S) ==
    IF S = {} THEN 0
    ELSE LET i == CHOOSE k \in S : TRUE
         IN Get(mk_data[i], "quantity").v + QuantityAt(S \ {i})
\* the entries returned for item id item_id
EntriesOf(item_id) ==
    {n \in 1..Len(mk_analysis.entries) : mk_analysis.entries[n].item_id = item_id}
\* entry n aggregates all listings of its item
AggregatesItem(n) ==
    LET entry == mk_analysis.entries[n]
        mine == PositionsOf(entry.item_id)
        unit_prices == {Get(mk_data[i], "unit_price").v : i \in mine}
    IN /\ mine # {}
       /\ entry.min_price \in unit_prices
       /\ entry.max_price \in unit_prices
       /\ \A p \in unit_prices : entry.min_price <= p /\ p <= entry.max_price
       /\ entry.total_quantity = QuantityAt(mine)

-----------------------------------------------------------------------------
(* Claims about sync_guild_roster, under SpecRoster *)

\* the member ids the upstream reported to the run
ReportedIds == {roster.members[i].id : i \in 1..Len(roster.members)}
\* the characters the store attaches to the guild
AttachedIds == {row.id : row \in {r \in characters : r.guild = ThisGuild}}
\* the characters that were in the local roster when the run started and are
\* absent from the reported roster
LeftGuild == (roster.existing_member_ids \ {NullId}) \ ReportedIds
\* the run is over, and it went through every reported member
WentThroughMembers == roster.pc = "done" /\ roster.at \in {"remove", "return"}

\* C18: when a character is in the guild's local roster and is absent from
\* the upstream roster, sync_guild_roster completes with that character's
\* guild relation cleared, the character record still in the store, and the
\* character counted in num_removed.
C18_RemovalDetaches ==
    (WentThroughMembers /\ LeftGuild # {}) =>
        /\ roster.outcome = "returned"
        /\ \A id \in LeftGuild :
              \E row \in characters : row.id = id /\ row.guild = None
        /\ roster.num_removed = Cardinality(LeftGuild)

\* C19: after a sync_guild_roster run that got the roster, the set of
\* characters attached to the guild equals the set of member ids reported
\* upstream; a reported member whose record exists outside the roster ends
\* the run attached to the guild.
C19_PostStateIsReported ==
    (roster.pc = "done" /\ roster.at # "call") => AttachedIds = ReportedIds

-----------------------------------------------------------------------------
(* Claims about sync_character_recipes, under SpecRecipes *)

\* the recipe set R the upstream reported for the character at hand
ReportedRecipes == {crafts.reported[i] : i \in 1..Len(crafts.reported)}
\* the character at hand is done with: its removals were made, or the run
\* ended while it was at hand
CharacterOver == crafts.response_ok /\ crafts.pc \in {"character", "done"}
\* R - E was added, E - R was removed, nothing else was touched, and the
\* known set is R
ReconciledToReported ==
    /\ crafts.added = ReportedRecipes \ crafts.known_recipes
    /\ crafts.removed = crafts.known_recipes \ ReportedRecipes
    /\ (crafts.added \cup crafts.removed) \cap (crafts.known_recipes \cap ReportedRecipes) = {}
    /\ known_recipes[crafts.character] = ReportedRecipes

-----------------------------------------------------------------------------
(* Claims about import_recipes_and_reagents, under SpecCatalog *)

\* C20: when the upstream call for one recipe id answers 404 during
\* import_recipes_and_reagents, the run does not abort: it returns its
\* summary, and every other recipe is in the catalog.
C20_NotFoundIsolated ==
    (catalog.pc = "done" /\ catalog.not_found # {}) =>
        /\ catalog.outcome = "returned"
        /\ RecipeIds \ catalog.not_found \subseteq recipes

-----------------------------------------------------------------------------
(* Claims about the errors and the summary of import_commodities *)

\* the run of worker w was ended, inside the loop over the items, by a 404
\* answer to a fetch for one item (the snapshot call leaves market_data empty)
AbortedByMissingItem(w) ==
    /\ run[w].state = "raised"
    /\ run[w].error = "BattleNetAPINotFoundError"
    /\ run[w].market_data # <<>>

\* C21: a 404 answer to a fetch for one unknown item (its detail or its media)
\* never ends an import_commodities run: the item is passed over and the run
\* goes on with the items after it.
C21_MissingItemNeverAborts == ~AbortedByMissingItem(1)

\* the summary counts n items as not found: it has an entry, other than the
\* added and the skipped, whose value is n
CountsNotFound(summary, n) ==
    \E key \in DOMAIN summary \ {"num_added", "num_skipped"} : summary[key] = n

\* C22: the summary of an import_commodities run that returned counts, apart
\* from the added and the skipped, each item the run passed over because
\* get_item answered 404.
C22_NotFoundCounted ==
    (run[1].state = "returned" /\ run[1].not_found # {}) =>
        CountsNotFound(ReturnedSummary(run[1]), Cardinality(run[1].not_found))

-----------------------------------------------------------------------------
(* Claims about the catalog imports *)

\* C23: a run of a catalog import (here import_professions) in which
\* something fails, the first upstream call included, ends by raising
\* GameDataImportError carrying the cause; no other exception reaches the
\* caller.
C23_FailureIsDomainError ==
    profession_import.pc = "done" =>
        \/ profession_import.outcome = "returned"
        \/ /\ profession_import.outcome = "GameDataImportError"
           /\ profession_import.cause # "none"

-----------------------------------------------------------------------------
(* Claims about the errors of the character syncs *)

\* C24: a sync_character_recipes run in which an upstream call fails (the
\* professions call, or the fetch of a recipe the catalog does not have) ends
\* by raising GuildDataImportError; no exception of the client and no other
\* low-level exception reaches the caller.
C24_NoRawClientError ==
    crafts.pc = "done" => crafts.outcome \in {"returned", "GuildDataImportError"}

-----------------------------------------------------------------------------
(* Claims about what the runs write *)

\* the Commodity row written for an entry of the market data under an origin
\* is in the store, with the values it was written with
RowStored(entry, origin) ==
    \E i \in 1..Len(commodities) :
        /\ commodities[i].item = entry.item_id
        /\ commodities[i].origin = origin
        /\ commodities[i].quantity = entry.total_quantity
        /\ commodities[i].market_price = entry.market_price

\* the entries of the items the run went through before the item at idx
EntriesBefore(r) == {r.market_data[k] : k \in 1..(r.idx - 1)}

\* C25: after an import_commodities run was aborted at an item, the Item and
\* Commodity rows it wrote for the items before that one are in the store.
C25_NoRollback ==
    run[1].state = "raised" =>
        \A entry \in EntriesBefore(run[1]) :
            entry.item_id \in run[1].created =>
                /\ entry.item_id \in items
                /\ RowStored(entry, run[1].origin)

\* a run was aborted by a failed upstream call after it had written a row
C25_Witness ==
    /\ run[1].state = "raised"
    /\ run[1].error = "BattleNetAPIError"
    /\ run[1].created # {}
    /\ run[1].idx > 1

\* the item ids of the market data of a run
ItemIdsOf(r) == {r.market_data[k].item_id : k \in 1..Len(r.market_data)}

\* the items a returned run passed over because a Commodity row with the
\* item and the run's origin was there
SkippedAsExisting(r) == ItemIdsOf(r) \cap r.existing_commodities

\* C26: in the summary import_commodities returns, num_added is the number
\* of Commodity rows the run created and num_skipped is the number of items
\* it passed over because a row with the item and the origin existed.
C26_SummaryCountsAreTrue ==
    run[1].state = "returned" =>
        /\ ReturnedSummary(run[1]).num_added = Cardinality(run[1].created)
        /\ ReturnedSummary(run[1]).num_skipped = Cardinality(SkippedAsExisting(run[1]))

\* the snapshot a run got, found by its origin
SnapshotOf(r) == CHOOSE response \in Snapshots : Prepared[response].origin = r.origin

\* the distinct item ids of the listings of a snapshot
SnapshotItemIds(response) ==
    LET listings == Get(response, "auctions").v
    IN {ListingItemId(listings[k]).v :
           k \in {i \in 1..Len(listings) : ListingItemId(listings[i]).t = "int"}}

\* the positions of the Commodity rows with an item and an origin
RowsOf(item_id, origin) ==
    {i \in 1..Len(commodities) :
        commodities[i].item = item_id /\ commodities[i].origin = origin}

\* C27 (as claimed): in a returned import_commodities run each item id of
\* the snapshot either got one new Commodity row with the run's origin or
\* was counted in num_skipped, and the rows created plus num_skipped are as
\* many as the distinct item ids of the snapshot.
C27_AddedOrSkipped ==
    run[1].state = "returned" =>
        LET r == run[1]
            ids == SnapshotItemIds(SnapshotOf(r))
        IN /\ \A id \in ids : (id \in r.created) # (id \in SkippedAsExisting(r))
           /\ Cardinality(r.created) + r.num_skipped = Cardinality(ids)

\* C27 (amended): in a returned run each non-zero item id of the snapshot
\* is exactly one of: created (one new row with the run's origin), skipped
\* (a row with the item and the origin was there; counted in num_skipped),
\* or passed over as not found (no row, no count); the rows created plus
\* num_skipped plus the items not found are as many as those item ids.
C27_AddedSkippedOrNotFound ==
    run[1].state = "returned" =>
        LET r == run[1]
            ids == SnapshotItemIds(SnapshotOf(r)) \ {0}
            skipped == SkippedAsExisting(r)
        IN /\ r.created \cup skipped \cup r.not_found = ids
           /\ r.created \cap skipped = {}
           /\ r.created \cap r.not_found = {}
           /\ skipped \cap r.not_found = {}
           /\ \A id \in r.created \cup skipped : Cardinality(RowsOf(id, r.origin)) = 1
           /\ \A id \in r.not_found : RowsOf(id, r.origin) = {}
           /\ r.num_skipped = Cardinality(skipped)
           /\ Cardinality(r.created) + r.num_skipped + Cardinality(r.not_found)
                 = Cardinality(ids)

\* a returned run that skipped an item as existing and passed over a junk item
C27_Witness ==
    /\ run[1].state = "returned"
    /\ run[1].num_skipped >= 1
    /\ run[1].not_found # {}

\* every Commodity row of the store is in the store after the step, as it was
RowsKept ==
    \A i \in 1..Len(commodities) :
        /\ i <= Len(commodities')
        /\ commodities'[i] = commodities[i]

\* C28: no step of an import_commodities run changes or deletes a Commodity
\* row: each row keeps the item, quantity, market price and origin it was
\* created with, whatever runs come after.
C28_RowsNeverMutated == [][RowsKept]_vars

\* a later run has written a row for an item that had a row of an earlier
\* snapshot
C28_Witness ==
    \E i, j \in 1..Len(commodities) :
        /\ i < j
        /\ commodities[i].item = commodities[j].item
        /\ commodities[i].origin # commodities[j].origin

-----------------------------------------------------------------------------
(* Claims about the catalog, under SpecProfessions *)

\* import_professions runs again on the index that the run before it got and
\* returned on
Reimport ==
    /\ profession_import.pc \in {"professions", "done"}
    /\ profession_import.previous.returned
    /\ profession_import.response = profession_import.previous.response

\* no Profession row is removed or changed by the step; in a run that is a
\* Reimport no row is added and no insert is refused
AppendOnlyStep ==
    /\ professions \subseteq professions'
    /\ Reimport' =>
          /\ professions' = professions
          /\ profession_import'.cause # "IntegrityError"

\* C29: no step of a catalog import deletes a catalog entity, and a catalog
\* import run again while the upstream data is unchanged creates no entity
\* and ends without an error of its own (it returns, unless an upstream call
\* fails).
C29_AppendOnlyIdempotent == [][AppendOnlyStep]_vars

\* the second run on an index of two professions or more has returned
C29_Witness ==
    /\ Reimport
    /\ profession_import.pc = "done"
    /\ profession_import.outcome = "returned"
    /\ profession_import.num_success >= 2

-----------------------------------------------------------------------------
(* Claims about the reconciliations, under SpecReconcile *)

\* the member sync_guild_roster turns to next has a Character row attached
\* to the guild
NextMemberInRoster ==
    /\ roster.pc = "members"
    /\ roster.todo # <<>>
    /\ \E row \in characters :
          row.id = Head(roster.todo).id /\ row.guild = ThisGuild

\* sync_character_recipes is at a character whose reported recipes are the
\* recipes it was known to have when its turn began
NothingToReconcile ==
    /\ crafts.pc = "additions"
    /\ Range(crafts.reported) = crafts.known_recipes

\* the store of the catalog and of the characters is left as it is
NoStoreWrite ==
    /\ characters' = characters
    /\ known_recipes' = known_recipes
    /\ recipes' = recipes
    /\ reagents' = reagents
    /\ recipe_reagents' = recipe_reagents

\* C30: the step of sync_guild_roster for a reported member that is in the
\* roster writes nothing to the store, and the steps of
\* sync_character_recipes for a character whose reported recipes are its known
\* recipes add no relation, remove none and leave has_changes false, so that
\* the character is not saved.
C30_OnlyTheDelta ==
    [][/\ NextMemberInRoster => NoStoreWrite
       /\ NothingToReconcile =>
             /\ NoStoreWrite
             /\ ~crafts'.has_changes
             /\ crafts'.num_added = crafts.num_added
             /\ crafts'.num_removed = crafts.num_removed]_vars

\* sync_character_recipes is through with a character that reported the
\* recipes it was known to have, and has not saved it
C30_Witness ==
    /\ crafts.pc = "character"
    /\ crafts.response_ok
    /\ crafts.known_recipes # {}
    /\ Range(crafts.reported) = crafts.known_recipes
    /\ crafts.added = {}
    /\ crafts.removed = {}
    /\ ~crafts.has_changes

-----------------------------------------------------------------------------
(* Claims about two sync_character_recipes runs, under SpecResync *)

\* s is the first Len(s) elements of t
IsPrefix(s, t) == Len(s) <= Len(t) /\ s = SubSeq(t, 1, Len(s))

\* the second run, the upstream answering so far as it answered the first
SameUpstreamAgain(c) ==
    /\ c.rerun
    /\ IsPrefix(c.answers, c.previous)

\* C31: in a sync_character_recipes run that follows another and gets the
\* same upstream answers, no step changes the known recipes of a character,
\* and num_added and num_removed stay 0 up to the return.
C31_SecondSyncChangesNothing ==
    [][SameUpstreamAgain(crafts') =>
          /\ known_recipes' = known_recipes
          /\ crafts'.num_added = 0
          /\ crafts'.num_removed = 0]_vars

\* the second run has returned on the answers of the first: a character that
\* reports recipes and a character that is not found
C31_Witness ==
    /\ crafts.rerun
    /\ crafts.pc = "done"
    /\ crafts.outcome = "returned"
    /\ crafts.answers = crafts.previous
    /\ \E i \in 1..Len(crafts.answers) :
          /\ crafts.answers[i].found
          /\ crafts.answers[i].response # <<>>
    /\ \E i \in 1..Len(crafts.answers) : ~crafts.answers[i].found

-----------------------------------------------------------------------------
(* Claims about the order of import_commodities, under SpecImport *)

\* the position of the first listing of an item in the snapshot of a run
FirstListing(r, item_id) ==
    LET listings == Get(SnapshotOf(r), "auctions").v
    IN CHOOSE i \in 1..Len(listings) :
          /\ ListingItemId(listings[i]).t = "int"
          /\ ListingItemId(listings[i]).v = item_id
          /\ \A k \in 1..(i - 1) :
                ~(ListingItemId(listings[k]).t = "int"
                  /\ ListingItemId(listings[k]).v = item_id)

\* the position of the Commodity row a run wrote for an item
RowWritten(r, item_id) == CHOOSE i \in RowsOf(item_id, r.origin) : TRUE

\* the run takes the items in the order of their first listings
InListingOrder(r) ==
    \A k, l \in 1..Len(r.market_data) :
        k < l => FirstListing(r, r.market_data[k].item_id)
                    < FirstListing(r, r.market_data[l].item_id)

\* the items the run has not come to are untouched by it, and the rows it
\* wrote are in the store in the order of the items
OneItemAtATime(r) ==
    /\ \A k \in 1..Len(r.market_data) :
          k >= r.idx => r.market_data[k].item_id \notin r.created \cup r.not_found
    /\ \A k, l \in 1..Len(r.market_data) :
          (/\ k < l
           /\ r.market_data[k].item_id \in r.created
           /\ r.market_data[l].item_id \in r.created)
             => RowWritten(r, r.market_data[k].item_id)
                   < RowWritten(r, r.market_data[l].item_id)

\* C32: an import_commodities run takes the items in the order in which
\* their ids first appear in the upstream listing, one item at a time: the
\* rows of an item are written before the next item is begun.
C32_UpstreamOrderKept ==
    run[1].state \in {"running", "returned", "raised"} =>
        /\ InListingOrder(run[1])
        /\ OneItemAtATime(run[1])

\* a run has written the rows of item 3 and then of item 2, as listed
C32_Witness ==
    /\ run[1].state = "returned"
    /\ run[1].created = {2, 3}
    /\ RowWritten(run[1], 3) < RowWritten(run[1], 2)

-----------------------------------------------------------------------------
(* Claims about the recipe-to-character search, under SpecSearch *)

\* the names of the characters with a known recipe whose name contains q,
\* letter case apart
NamesKnowing(q) ==
    {CharacterNameOf(c) :
        c \in {k \in CharacterIds :
                  \E r \in known_recipes[k] :
                      \E i \in 1..Len(RecipeNameOf(r)) : \E j \in i..Len(RecipeNameOf(r)) :
                          Lower(SubSeq(RecipeNameOf(r), i, j)) = Lower(q)}}

\* C33 (as claimed): a GET of the recipe-character-search endpoint with
\* name=q is answered with the distinct names of the characters that have a
\* known recipe whose name contains q, case-insensitively, each result
\* holding only the name; without the parameter the answer is the empty list.
C33_SearchReturnsNames ==
    search.pc = "done" =>
        /\ search.outcome = "200"
        /\ \A i \in 1..Len(search.data) : DOMAIN search.data[i] = {"name"}
        /\ \A i, j \in 1..Len(search.data) :
              i # j => search.data[i].name # search.data[j].name
        /\ {search.data[i].name : i \in 1..Len(search.data)} =
              IF search.name.given /\ search.name.value # <<>>
              THEN NamesKnowing(search.name.value) ELSE {}

-----------------------------------------------------------------------------
(* Claims about entities stored under their upstream id, under SpecProfessions *)

\* the import is at an upstream profession whose id has a row with other
\* attributes
MeetsChangedProfession ==
    /\ profession_import.pc = "professions"
    /\ profession_import.todo # <<>>
    /\ Head(profession_import.todo).id \in ProfessionRowIds(professions)
    /\ Head(profession_import.todo) \notin professions

\* C34 (as claimed): an import that meets an upstream entity whose id is
\* stored with other attributes takes the entity as already created: it
\* inserts no row for that id, is not ended by the rejected insert, and goes
\* on with the entities that follow.
C34_ChangedEntityIsSkipped ==
    [][MeetsChangedProfession =>
          /\ professions' = professions
          /\ profession_import'.cause # "IntegrityError"]_vars
-----------------------------------------------------------------------------
(* Claims about the market price of an entry, under SpecMarket *)

\* the unit price of the listing at position i
UnitPriceAt(i) == Get(mk_data[i], "unit_price").v
\* the listings at positions i and j are priced within the radius
\* max(5% of the price range of the positions S, 1000) of each other
CloseListings(S, i, j) ==
    LET unit_prices == {UnitPriceAt(k) : k \in S}
        price_range == MaxOf(unit_prices) - MinOf(unit_prices)
    IN \/ Abs(UnitPriceAt(i) - UnitPriceAt(j)) <= 1000
       \/ 20 * Abs(UnitPriceAt(i) - UnitPriceAt(j)) <= price_range
\* the listing at position i of the listings S is noise: the listings are
\* clustered (3 or more) and no other one is priced within the radius
NoiseListing(S, i) ==
    Cardinality(S) >= 3 /\ \A j \in S \ {i} : ~CloseListings(S, i, j)
\* the lowest price of entry n is noise while a cluster exists
LowestIsNoise(n) ==
    LET entry == mk_analysis.entries[n]
        mine == PositionsOf(entry.item_id)
    IN /\ \A i \in mine : UnitPriceAt(i) = entry.min_price => NoiseListing(mine, i)
       /\ \E i \in mine : ~NoiseListing(mine, i)

\* C36: for every item in the result of analyze_market_data the market price
\* is one of the unit prices listed for the item, lies between the minimum
\* and the maximum price of the entry, and is strictly above the minimum
\* exactly when the lowest price is noise while a cluster exists.
C36_MarketPriceInRange ==
    Analyzed =>
        \A n \in 1..Len(mk_analysis.entries) :
            LET entry == mk_analysis.entries[n]
            IN /\ entry.market_price \in
                     {UnitPriceAt(i) : i \in PositionsOf(entry.item_id)}
               /\ entry.min_price <= entry.market_price
               /\ entry.market_price <= entry.max_price
               /\ entry.market_price > entry.min_price <=> LowestIsNoise(n)

\* listings were analyzed of which one item has three, the lowest price
\* noise and the two others a cluster: the market price is above the minimum
C36_Witness ==
    /\ Analyzed
    /\ \E n \in 1..Len(mk_analysis.entries) :
          /\ Cardinality(PositionsOf(mk_analysis.entries[n].item_id)) >= 3
          /\ LowestIsNoise(n)
          /\ mk_analysis.entries[n].market_price > mk_analysis.entries[n].min_price

-----------------------------------------------------------------------------
(* Claims about overlapping import_commodities runs, under SpecOverlap *)

\* the item the run of worker w is at
ItemAt(w) == run[w].market_data[run[w].idx].item_id

\* the store holds a row of the item and the origin
HasRow(store, item, origin) ==
    \E i \in 1..Len(store) : store[i].item = item /\ store[i].origin = origin

\* Worker w has lost the race on the item it is at: the row of the item and
\* the snapshot was written after the run read the rows of its snapshot.
LosesRace(w) ==
    /\ run[w].state = "running"
    /\ run[w].idx <= Len(run[w].market_data)
    /\ run[w].ec_cached
    /\ ItemAt(w) \notin run[w].existing_commodities
    /\ HasRow(commodities, ItemAt(w), run[w].origin)

\* how a step ends when an upstream call of it fails
UpstreamFailures == {"BattleNetAPIError", "BattleNetAPINotFoundError", "TypeError"}

\* C37: when import_commodities runs on one snapshot overlap, the store never
\* comes to hold two Commodity rows of one item and origin; the run that
\* loses the race on an item writes no row and counts neither a skip nor an
\* addition: its insert is rejected and the run ends with
\* AuctionHouseImportError (when no upstream call of the item fails first).
C37_RaceLoserIsRejected ==
    [][/\ \A i, j \in 1..Len(commodities') :
             (i # j /\ commodities'[i].item = commodities'[j].item)
                => commodities'[i].origin # commodities'[j].origin
       /\ \A w \in Workers :
             (LosesRace(w) /\ run'[w] # run[w]) =>
                /\ commodities' = commodities
                /\ run'[w].num_skipped = run[w].num_skipped
                /\ run'[w].num_added = run[w].num_added
                /\ \/ /\ run'[w].state = "raised"
                      /\ run'[w].error = "IntegrityError"
                   \/ /\ run'[w].state = "raised"
                      /\ run'[w].error \in UpstreamFailures
                      /\ ItemAt(w) \notin run[w].existing_items
                   \/ /\ run'[w].state = "running"
                      /\ ItemAt(w) \in run'[w].not_found
                      /\ ItemAt(w) \notin run[w].existing_items]_vars

\* a run was ended by a rejected insert of an item for which another run on
\* the same snapshot wrote the row
C37_Witness ==
    \E w, v \in Workers :
        /\ w # v
        /\ run[w].state = "raised"
        /\ run[w].error = "IntegrityError"
        /\ run[v].origin = run[w].origin
        /\ ItemAt(w) \in run[v].created
        /\ HasRow(commodities, ItemAt(w), run[w].origin)

-----------------------------------------------------------------------------
(* Claims about the recovery of a call, under SpecClient *)

\* the step issues a GET that is answered with a 2xx status
SuccessfulGet ==
    /\ Len(events') = Len(events) + 1
    /\ events'[Len(events')].op = "GET"
    /\ events'[Len(events')].status >= 200
    /\ events'[Len(events')].status < 300

\* the steps of a call after its token POST, if it made one
AfterToken(steps) == SelectSeq(steps, LAMBDA e : e.op # "POST")

\* C38: a call that has received k < MAX_RETRIES transient answers and
\* nothing else is still in progress, and when its next GET is answered 2xx
\* the call returns the JSON body of that answer, after exactly k + 1 GETs
\* and k sleeps, a sleep after each transient answer; a call that has ended
\* issues no GET.
C38_RecoversAfterTransient ==
    /\ []((AllTransient /\ Len(Gets) < MAX_RETRIES) => pc \in {"backoff", "request"})
    /\ [][(AllTransient /\ SuccessfulGet) =>
             /\ pc' = "done"
             /\ result' = "json"
             /\ Len(Gets') = Len(Gets) + 1
             /\ Len(Sleeps') = Len(Gets)
             /\ \A i \in 1..Len(Gets) :
                   /\ AfterToken(events')[2 * i - 1].op = "GET"
                   /\ AfterToken(events')[2 * i].op = "SLEEP"]_vars
    /\ [][pc = "done" => Len(Gets') <= Len(Gets)]_vars

\* a call has returned the body of its third GET, after two transient
\* answers and two sleeps
C38_Witness ==
    /\ pc = "done"
    /\ result = "json"
    /\ Len(Gets) = MAX_RETRIES
    /\ Len(Sleeps) = MAX_RETRIES - 1
    /\ Gets[1].status = 429
    /\ Gets[2].status = 502
    /\ Gets[3].status = 200

-----------------------------------------------------------------------------
(* Claims about the guild of a roster sync, under SpecRoster *)

\* sync_guild_roster is started while the store holds no such guild
StartsWithoutGuild ==
    /\ roster.pc = "idle"
    /\ roster' # roster
    /\ ThisGuild \notin guilds

\* C39: when the store holds no guild of the given name and realm,
\* sync_guild_roster raises GuildDataImportError before it makes an upstream
\* call and without a change of the store.
C39_NeedsLocalGuild ==
    [][StartsWithoutGuild =>
          /\ roster'.pc = "done"
          /\ roster'.outcome = "GuildDataImportError"
          /\ ~roster'.asked
          /\ roster'.members = <<>>
          /\ characters' = characters
          /\ guilds' = guilds]_vars

\* a sync of a guild that is not stored has ended, characters of another
\* guild being stored
C39_Witness ==
    /\ roster.pc = "done"
    /\ roster.at = "guild"
    /\ roster.outcome = "GuildDataImportError"
    /\ ThisGuild \notin guilds
    /\ characters # {}

-----------------------------------------------------------------------------
(* Claims about sync_characters, under SpecSync *)

\* the turns of the loop so far, and the characters they were about
Turns == 1..Len(charsync.answers)
Answered == {charsync.answers[n].character : n \in Turns}
\* the characters listed as not found
ListedNotFound ==
    {charsync.characters_not_found[n] : n \in 1..Len(charsync.characters_not_found)}
\* the row of the character is as the summary reported it
UpdatedBy(answer) == profiles[answer.character] = answer.profile
\* the row of the character is as it was when the run began
LeftUnchanged(character) == profiles[character] = charsync.before[character]
\* one of the calls of the turn was answered 404
Answered404(answer) ==
    "BattleNetAPINotFoundError" \in {answer.summary, answer.media}
\* both calls of the turn succeeded
BothSucceeded(answer) == answer.summary = "json" /\ answer.media = "json"

====
